---- MODULE Spec2Model ----
(***************************************************************************)
(* Model of the PDF text-acquisition pipeline (services/pdfService.ts), of *)
(* the upload component that drives it (components/DocumentUploader) and   *)
(* of the component's merge of radiology extractions.                      *)
(*                                                                         *)
(* A string is a sequence of one-character strings.  "x" stands for any    *)
(* non-whitespace character, " " and "\n" are whitespace.                  *)
(***************************************************************************)
EXTENDS Integers, Sequences, FiniteSets, TLC

\* ------------------------------------------------------------------ bounds
MaxPages == 2      \* pages of one document
MaxBatch == 2      \* files of one upload event
MaxUploads == 2    \* upload events of one behaviour
MaxExtractions == 2   \* extractions of one merge
MaxMergeCalls == 2    \* calls of the merge on one argument
MaxReportLength == 51 \* non-whitespace characters of a report text
MaxPadding == 1       \* spaces before and after a report text
MaxDocuments == 2     \* documents of one batchSummarizeDocuments call
MaxFiles == 2         \* uploaded files a generate handler finds
MaxRuns == 2          \* runs of the generate handlers in one behaviour

\* ------------------------------------------------------------ text helpers
SP == " "
NL == "\n"
X == "x"

IsWhitespace(c) == c \in {SP, NL}

RECURSIVE TrimStart(_)
TrimStart(s) ==
  IF s = <<>> THEN <<>>
  ELSE IF IsWhitespace(Head(s)) THEN TrimStart(Tail(s)) ELSE s

RECURSIVE TrimEnd(_)
TrimEnd(s) ==
  IF s = <<>> THEN <<>>
  ELSE IF IsWhitespace(s[Len(s)]) THEN TrimEnd(SubSeq(s, 1, Len(s) - 1)) ELSE s

\* String.prototype.trim
Trim(s) == TrimEnd(TrimStart(s))

\* Array.prototype.join
RECURSIVE Join(_, _)
Join(parts, sep) ==
  IF parts = <<>> THEN <<>>
  ELSE IF Len(parts) = 1 THEN parts[1]
  ELSE parts[1] \o sep \o Join(Tail(parts), sep)

\* Array.prototype.filter(Boolean) on strings: the empty string is falsy
RECURSIVE FilterBoolean(_)
FilterBoolean(parts) ==
  IF parts = <<>> THEN <<>>
  ELSE IF Head(parts) = <<>> THEN FilterBoolean(Tail(parts))
  ELSE <<Head(parts)>> \o FilterBoolean(Tail(parts))

\* extractTextFromPage: the page's text items, falsy ones dropped, joined by ' '
PageText(items) == Join(FilterBoolean(items), <<SP>>)

\* `text.trim()` used as a condition: true iff something non-whitespace is left
HasText(s) == Trim(s) # <<>>

\* the return statement with the final trim forgotten
JoinPageTextsNoTrim(texts) == Join(texts, <<NL, NL>>)

\* the value extractTextFromPdf returns
JoinPageTexts(texts) == Trim(Join(texts, <<NL, NL>>))

\* a loop that steps over every other page
NextPageSkips(p) == p + 2

\* the loop increment `pageNumber += 1`
NextPage(p) == p + 1

\* a loop that runs one page past the end
LoopContinuesPastEnd(p, n) == p <= n + 1

\* the loop condition `pageNumber <= pdf.numPages`
LoopContinues(p, n) == p <= n

\* String.prototype.toLowerCase on a file extension
ToLowerCase(e) == IF e = "PDF" THEN "pdf" ELSE e

\* file filter of handleFiles: the MIME type or the .pdf extension
IsPdfFile(f) == f.type = "application/pdf" \/ ToLowerCase(f.ext) = "pdf"

\* Array.prototype.filter with IsPdfFile
RECURSIVE FilterPdf(_)
FilterPdf(files) ==
  IF files = <<>> THEN <<>>
  ELSE IF IsPdfFile(Head(files)) THEN <<Head(files)>> \o FilterPdf(Tail(files))
  ELSE FilterPdf(Tail(files))

\* --------------------------------------------------------------- the state
VARIABLES
  pdfWorkerReady,    \* pdfService: module flag
  ocrWorkerPromise,  \* pdfService: 0 is null, otherwise the id of the promise
  workerPromises,    \* state of the promise of each createWorker call, by id
  uploadedFiles,     \* component state: sequence of [name, content]
  error,             \* component state: [msg, names], msg "null" for null
  isExtracting,      \* component state
  extractionStatus,  \* component state: file name + last progress snapshot
  isProcessing,      \* prop owned by the parent component
  pc,                \* per handleFiles invocation: the await it is suspended at
  pdfFiles,          \* handleFiles: the filtered batch
  fileIdx,           \* handleFiles: position of the for-of loop
  processedFiles,    \* handleFiles: local accumulator
  emptyFiles,        \* handleFiles: local accumulator
  numPages,          \* extractTextFromPdf: pdf.numPages
  pageNumber,        \* extractTextFromPdf: loop variable
  pageTexts,         \* extractTextFromPdf: accumulator
  result,            \* value the last extractTextFromPdf call resolved to
  failure,           \* error the last extractTextFromPdf call rejected with
  awaited,           \* id of the worker promise the run awaits / got
  progress,          \* extractTextFromPdf: the mutable progress object
  inflight,          \* asynchronous operations started and not yet settled
  events,            \* history: progress snapshots handed to the observer
  log,               \* history: operations of the current run, in order
  seen,              \* history: what each handled page yielded
  uploads,           \* history: number of upload events so far
  extractions,       \* mergeRadiologyExtractions: the argument
  merged,            \* mergeRadiologyExtractions: the values the calls so far
                     \* returned, in order
  apiKey,            \* openaiService: VITE_OPENAI_API_KEY is set
  svcCall,           \* openaiService: the exported function that was called
  svcPc,             \* openaiService: the await the call is suspended at
  svcArg,            \* openaiService: the argument of the call
  requests,          \* history: number of openai.responses.create calls
  settled,           \* openaiService: how the promise of the call settled
  docIdx,            \* batchSummarizeDocuments: position of the for-of loop
  summaries,         \* batchSummarizeDocuments: the accumulator
  docOutcomes,       \* history: how summarizeDocument settled, per document
  isRadiologyProcessing,  \* component state
  genPc,             \* generate handler: the await it is suspended at
  genFiles,          \* generate handler: the uploadedFiles of its closure
  genIdx,            \* generate handler: position of the for-of loop
  genResults,        \* generate handler: local summaries / extractions
  genLog,            \* history: the calls of the current run and their outcome
  emitted,           \* history: the arguments of onSummariesGenerated calls
  genRuns            \* history: number of generate runs so far

procVars == <<pdfWorkerReady, ocrWorkerPromise, workerPromises>>
uiVars == <<uploadedFiles, error, isExtracting, isProcessing>>
batchVars == <<pdfFiles, fileIdx, processedFiles, emptyFiles, uploads>>
runVars == <<numPages, pageNumber, pageTexts, result, failure, awaited>>
progVars == <<progress, events, extractionStatus>>
mergeVars == <<extractions, merged>>
serviceVars == <<apiKey, svcCall, svcPc, svcArg, requests, settled, docIdx,
                 summaries, docOutcomes>>
genVars == <<isRadiologyProcessing, genPc, genFiles, genIdx, genResults,
             genLog, emitted, genRuns>>
vars == <<pdfWorkerReady, ocrWorkerPromise, workerPromises, uploadedFiles,
          error, isExtracting, extractionStatus, isProcessing, pc, pdfFiles,
          fileIdx, processedFiles, emptyFiles, numPages, pageNumber,
          pageTexts, result, failure, awaited, progress, inflight, events,
          log, seen, uploads, extractions, merged, apiKey, svcCall, svcPc,
          svcArg, requests, settled, docIdx, summaries, docOutcomes,
          isRadiologyProcessing, genPc, genFiles, genIdx, genResults, genLog,
          emitted, genRuns>>

\* concurrent invocations of handleFiles the model follows
Handlers == {1, 2}

\* ------------------------------------------------------------------ inputs
Files ==
  { [name |-> "a", type |-> "application/pdf", ext |-> "pdf"],
    [name |-> "b", type |-> "", ext |-> "PDF"],
    [name |-> "c", type |-> "text/plain", ext |-> "txt"] }

SeqsUpTo(S, n) == UNION { [1..k -> S] : k \in 0..n }

Batches == SeqsUpTo(Files, MaxBatch) \ {<<>>}
SingleFiles == { <<f>> : f \in Files }

\* what getTextContent may report for a page: empty, whitespace and text items
ItemStrings == { <<>>, <<SP>>, <<X>> }
PageItems == SeqsUpTo(ItemStrings, 2)

\* what recognize may return for a rendered page
OcrTexts == { <<>>, <<SP>>, <<NL>>, <<X>>, <<X, NL>>, <<SP, X>> }

\* the smaller input sets of the concurrent specification
PageItemsSmall == { <<>>, << <<X>> >> }
OcrTextsSmall == { <<SP>>, <<X>> }
PageCountsSmall == {1}

\* ------------------------------------------------------------- error texts
NoError == [msg |-> "null", names |-> <<>>]
PdfOnlyError == [msg |-> "Please upload PDF files only (.pdf)", names |-> <<>>]
NoTextError ==
  [msg |-> "No readable text found in the selected PDF files.", names |-> <<>>]
NoTextInError(names) == [msg |-> "No readable text found in: ", names |-> names]
ExtractError ==
  [msg |-> "Error extracting text from PDF. Please try again.", names |-> <<>>]

\* ---------------------------------------------------------------- progress
NoProgress ==
  [totalPages |-> 0, textProcessed |-> 0, ocrProcessed |-> 0, ocrTotal |-> 0,
   currentPage |-> 0, stage |-> "none"]

InitialProgress(n) == [NoProgress EXCEPT !.totalPages = n, !.stage = "text"]

\* step 1: stage text, current page n
ProgressTextStart(prog, n) == [prog EXCEPT !.stage = "text", !.currentPage = n]

\* step 2: the text layer of the page was read
ProgressTextRead(prog) == [prog EXCEPT !.textProcessed = @ + 1]

\* step 4, before OCR: one more page needs OCR
ProgressOcrStart(prog) == [prog EXCEPT !.ocrTotal = @ + 1, !.stage = "ocr"]

\* step 4, after OCR
ProgressOcrDone(prog) == [prog EXCEPT !.ocrProcessed = @ + 1]

NoStatus == [fileName |-> "", progress |-> NoProgress]

\* the observer handleFiles passes: setExtractionStatus({fileName, ...progress})
ObserverStatus(name, prog) == [fileName |-> name, progress |-> prog]

\* ------------------------------------------------------------------- Init
\* the module and the component without a handler running
UploaderIdle ==
  /\ pdfWorkerReady = FALSE
  /\ ocrWorkerPromise = 0
  /\ workerPromises = <<>>
  /\ error = NoError
  /\ isExtracting = FALSE
  /\ extractionStatus = NoStatus
  /\ isProcessing = FALSE
  /\ pc = [h \in Handlers |-> "idle"]
  /\ pdfFiles = [h \in Handlers |-> <<>>]
  /\ fileIdx = [h \in Handlers |-> 0]
  /\ processedFiles = [h \in Handlers |-> <<>>]
  /\ emptyFiles = [h \in Handlers |-> <<>>]
  /\ numPages = [h \in Handlers |-> 0]
  /\ pageNumber = [h \in Handlers |-> 0]
  /\ pageTexts = [h \in Handlers |-> <<>>]
  /\ result = [h \in Handlers |-> <<>>]
  /\ failure = [h \in Handlers |-> "none"]
  /\ awaited = [h \in Handlers |-> 0]
  /\ progress = [h \in Handlers |-> NoProgress]
  /\ inflight = {}
  /\ events = [h \in Handlers |-> <<>>]
  /\ log = [h \in Handlers |-> <<>>]
  /\ seen = [h \in Handlers |-> <<>>]
  /\ uploads = 0

ComponentIdle ==
  /\ UploaderIdle
  /\ uploadedFiles = <<>>

\* no call of the service has been made
ServiceIdle ==
  /\ svcCall = "none"
  /\ svcPc = "idle"
  /\ svcArg = <<>>
  /\ requests = 0
  /\ settled = [state |-> "pending", value |-> <<>>]
  /\ docIdx = 0
  /\ summaries = <<>>
  /\ docOutcomes = <<>>

\* no generate handler has run
GenerationIdle ==
  /\ isRadiologyProcessing = FALSE
  /\ genPc = "idle"
  /\ genFiles = <<>>
  /\ genIdx = 0
  /\ genResults = <<>>
  /\ genLog = <<>>
  /\ emitted = <<>>
  /\ genRuns = 0

Init ==
  /\ ComponentIdle
  /\ extractions = <<>>
  /\ merged = <<>>
  /\ apiKey = TRUE
  /\ ServiceIdle
  /\ GenerationIdle

\* ------------------------------------------------------- derived notions
isBusy == isProcessing \/ isExtracting

Op(h, op, page) == [h |-> h, op |-> op, page |-> page]
Ev(ev, op, page) == [ev |-> ev, op |-> op, page |-> page]

CurrentFile(h) == pdfFiles[h][fileIdx[h]]

\* the operation handler h is suspended on
Pending(h) == Op(h, pc[h], pageNumber[h])

AwaitStates ==
  { "arrayBuffer", "getDocument", "text_getPage", "getTextContent",
    "render_getPage", "render", "getOcrWorker", "recognize" }

\* an extractTextFromPdf call of handler h has started and not settled
RunInProgress(h) == pc[h] \in AwaitStates

\* ------------------------------------------------- pdfService: one run
\* extractTextFromPdf up to its first await: ensurePdfWorker, file.arrayBuffer()
StartRun(h) ==
  /\ pdfWorkerReady' = TRUE
  /\ pc' = [pc EXCEPT ![h] = "arrayBuffer"]
  /\ numPages' = [numPages EXCEPT ![h] = 0]
  /\ pageNumber' = [pageNumber EXCEPT ![h] = 0]
  /\ pageTexts' = [pageTexts EXCEPT ![h] = <<>>]
  /\ result' = [result EXCEPT ![h] = <<>>]
  /\ failure' = [failure EXCEPT ![h] = "none"]
  /\ awaited' = [awaited EXCEPT ![h] = 0]
  /\ progress' = [progress EXCEPT ![h] = NoProgress]
  /\ events' = [events EXCEPT ![h] = <<>>]
  /\ log' = [log EXCEPT ![h] = <<Ev("start", "arrayBuffer", 0)>>]
  /\ seen' = [seen EXCEPT ![h] = <<>>]
  /\ inflight' = inflight \cup {Op(h, "arrayBuffer", 0)}

\* the awaited operation of handler h settles
Settles(h, op) == pc[h] = op /\ Pending(h) \in inflight

\* the error swallowed and the text gathered so far returned
RejectReturnsPartial(h, reason) ==
  /\ pc' = [pc EXCEPT ![h] = "done"]
  /\ result' = [result EXCEPT ![h] = Trim(Join(pageTexts[h], <<NL, NL>>))]
  /\ inflight' = inflight \ {Pending(h)}
  /\ log' = [log EXCEPT ![h] = Append(@, Ev("fail", pc[h], pageNumber[h]))]
  /\ UNCHANGED <<procVars, uiVars, mergeVars, serviceVars, genVars, batchVars, progVars, numPages, pageNumber,
                 pageTexts, failure, awaited, seen>>

\* the run rejects: the awaited operation failed, or the code threw
Reject(h, reason) ==
  /\ pc' = [pc EXCEPT ![h] = "failed"]
  /\ failure' = [failure EXCEPT ![h] = reason]
  /\ inflight' = inflight \ {Pending(h)}
  /\ log' = [log EXCEPT ![h] = Append(@, Ev("fail", pc[h], pageNumber[h]))]
  /\ UNCHANGED <<procVars, uiVars, mergeVars, serviceVars, genVars, batchVars, progVars, numPages, pageNumber,
                 pageTexts, result, awaited, seen>>

\* the loop condition with pageNumber = p, the accumulator texts, the progress
\* object prog, the events evs and the log lg as left by the code before it
LoopHead(h, n, p, texts, prog, evs, lg) ==
  /\ pageNumber' = [pageNumber EXCEPT ![h] = p]
  /\ pageTexts' = [pageTexts EXCEPT ![h] = texts]
  /\ IF LoopContinues(p, n)
     THEN LET pr == ProgressTextStart(prog, p) IN
          /\ pc' = [pc EXCEPT ![h] = "text_getPage"]
          /\ inflight' = (inflight \ {Pending(h)}) \cup {Op(h, "text_getPage", p)}
          /\ log' = [log EXCEPT ![h] = Append(lg, Ev("start", "text_getPage", p))]
          /\ progress' = [progress EXCEPT ![h] = pr]
          /\ events' = [events EXCEPT ![h] = Append(evs, pr)]
          /\ extractionStatus' = ObserverStatus(CurrentFile(h).name, pr)
          /\ result' = result
     ELSE /\ pc' = [pc EXCEPT ![h] = "done"]
          /\ inflight' = inflight \ {Pending(h)}
          /\ log' = [log EXCEPT ![h] = lg]
          /\ progress' = [progress EXCEPT ![h] = prog]
          /\ events' = [events EXCEPT ![h] = evs]
          /\ extractionStatus' =
               IF evs = events[h] THEN extractionStatus
               ELSE ObserverStatus(CurrentFile(h).name, prog)
          /\ result' = [result EXCEPT ![h] = JoinPageTexts(texts)]

\* `await file.arrayBuffer()` resolves; getDocument is started
ArrayBufferDone(h) ==
  /\ Settles(h, "arrayBuffer")
  /\ pc' = [pc EXCEPT ![h] = "getDocument"]
  /\ inflight' = (inflight \ {Pending(h)}) \cup {Op(h, "getDocument", 0)}
  /\ log' = [log EXCEPT ![h] =
               @ \o <<Ev("end", "arrayBuffer", 0), Ev("start", "getDocument", 0)>>]
  /\ UNCHANGED <<procVars, uiVars, mergeVars, serviceVars, genVars, batchVars, runVars, progVars, seen>>

\* `await getDocument({data}).promise` resolves to a document of n pages
GetDocumentDone(h, n) ==
  /\ Settles(h, "getDocument")
  /\ numPages' = [numPages EXCEPT ![h] = n]
  /\ LoopHead(h, n, 1, <<>>, InitialProgress(n), events[h],
              Append(log[h], Ev("end", "getDocument", 0)))
  /\ UNCHANGED <<procVars, uiVars, mergeVars, serviceVars, genVars, batchVars, failure, awaited, seen>>

GetDocumentFail(h) ==
  /\ Settles(h, "getDocument")
  /\ Reject(h, "getDocument")

\* extractTextFromPage: `await pdf.getPage(pageNumber)` resolves
TextGetPageDone(h) ==
  /\ Settles(h, "text_getPage")
  /\ pc' = [pc EXCEPT ![h] = "getTextContent"]
  /\ inflight' = (inflight \ {Pending(h)})
                   \cup {Op(h, "getTextContent", pageNumber[h])}
  /\ log' = [log EXCEPT ![h] =
               @ \o <<Ev("end", "text_getPage", pageNumber[h]),
                      Ev("start", "getTextContent", pageNumber[h])>>]
  /\ UNCHANGED <<procVars, uiVars, mergeVars, serviceVars, genVars, batchVars, runVars, progVars, seen>>

TextGetPageFail(h) ==
  /\ Settles(h, "text_getPage")
  /\ Reject(h, "getPage")

\* the fallback taken whatever the text layer holds
NeedsOcrAlways(text) == TRUE

\* `if (text)` in place of `if (text.trim())`
NeedsOcrUntrimmed(text) == text = <<>>

\* `if (text.trim())` is false: the page goes to OCR
NeedsOcr(text) == ~HasText(text)

\* extractTextFromPage returns; the loop body up to its next await
GetTextContentDone(h, items) ==
  /\ Settles(h, "getTextContent")
  /\ LET p == pageNumber[h]
         text == PageText(items)
         read == ProgressTextRead(progress[h])
         lg == Append(log[h], Ev("end", "getTextContent", p))
     IN
     /\ seen' = [seen EXCEPT ![h] =
                   Append(@, [text |-> text, ocred |-> FALSE, ocr |-> <<>>])]
     /\ IF NeedsOcr(text)
        THEN LET pr == ProgressOcrStart(read) IN
             /\ pc' = [pc EXCEPT ![h] = "render_getPage"]
             /\ inflight' = (inflight \ {Pending(h)})
                              \cup {Op(h, "render_getPage", p)}
             /\ log' = [log EXCEPT ![h] =
                          Append(lg, Ev("start", "render_getPage", p))]
             /\ progress' = [progress EXCEPT ![h] = pr]
             /\ events' = [events EXCEPT ![h] = @ \o <<read, pr>>]
             /\ extractionStatus' = ObserverStatus(CurrentFile(h).name, pr)
             /\ UNCHANGED <<pageNumber, pageTexts, result>>
        ELSE LoopHead(h, numPages[h], NextPage(p), Append(pageTexts[h], text),
                      read, Append(events[h], read), lg)
  /\ UNCHANGED <<procVars, uiVars, mergeVars, serviceVars, genVars, batchVars, numPages, failure, awaited>>

\* renderPageToCanvas: getPage resolves; viewport, canvas, 2d context, render
RenderGetPageDone(h, hasContext) ==
  /\ Settles(h, "render_getPage")
  /\ IF hasContext
     THEN /\ pc' = [pc EXCEPT ![h] = "render"]
          /\ inflight' = (inflight \ {Pending(h)})
                           \cup {Op(h, "render", pageNumber[h])}
          /\ log' = [log EXCEPT ![h] =
                       @ \o <<Ev("end", "render_getPage", pageNumber[h]),
                              Ev("start", "render", pageNumber[h])>>]
          /\ UNCHANGED <<procVars, uiVars, mergeVars, serviceVars, genVars, batchVars, runVars, progVars, seen>>
     ELSE Reject(h, "context")

RenderGetPageFail(h) ==
  /\ Settles(h, "render_getPage")
  /\ Reject(h, "getPage")

\* a cache of the resolved worker in place of the promise
MustCreateWorkerUnlessResolved(p) ==
  p = 0 \/ workerPromises[p] # "fulfilled"

\* a cache that is dropped when the creation failed
MustCreateWorkerAfterFailure(p) ==
  p = 0 \/ workerPromises[p] = "rejected"

\* getOcrWorker: `if (!ocrWorkerPromise)`
MustCreateWorker(p) == p = 0

\* the page is rendered; extractTextWithOcr calls getOcrWorker and awaits it
RenderDone(h) ==
  /\ Settles(h, "render")
  /\ LET create == MustCreateWorker(ocrWorkerPromise)
         id == IF create THEN Len(workerPromises) + 1 ELSE ocrWorkerPromise
     IN
     /\ workerPromises' =
          IF create THEN Append(workerPromises, "pending") ELSE workerPromises
     /\ ocrWorkerPromise' = id
     /\ awaited' = [awaited EXCEPT ![h] = id]
     /\ log' = [log EXCEPT ![h] =
                  @ \o <<Ev("end", "render", pageNumber[h])>>
                    \o (IF create
                        THEN <<Ev("start", "createWorker", pageNumber[h])>>
                        ELSE <<>>)
                    \o <<Ev("start", "getOcrWorker", pageNumber[h])>>]
  /\ pc' = [pc EXCEPT ![h] = "getOcrWorker"]
  /\ inflight' = (inflight \ {Pending(h)})
                   \cup {Op(h, "getOcrWorker", pageNumber[h])}
  /\ UNCHANGED <<pdfWorkerReady, uiVars, mergeVars, serviceVars, genVars, batchVars, progVars, numPages,
                 pageNumber, pageTexts, result, failure, seen>>

RenderFail(h) ==
  /\ Settles(h, "render")
  /\ Reject(h, "render")

\* tesseract's createWorker settles
CreateWorkerDone(id) ==
  /\ id \in DOMAIN workerPromises
  /\ workerPromises[id] = "pending"
  /\ workerPromises' = [workerPromises EXCEPT ![id] = "fulfilled"]
  /\ UNCHANGED <<pdfWorkerReady, ocrWorkerPromise, uiVars, mergeVars, serviceVars, genVars, batchVars, runVars,
                 progVars, pc, inflight, log, seen>>

CreateWorkerFail(id) ==
  /\ id \in DOMAIN workerPromises
  /\ workerPromises[id] = "pending"
  /\ workerPromises' = [workerPromises EXCEPT ![id] = "rejected"]
  /\ UNCHANGED <<pdfWorkerReady, ocrWorkerPromise, uiVars, mergeVars, serviceVars, genVars, batchVars, runVars,
                 progVars, pc, inflight, log, seen>>

\* `await getOcrWorker()` resolves; worker.recognize(canvas) is started
GetOcrWorkerDone(h) ==
  /\ Settles(h, "getOcrWorker")
  /\ workerPromises[awaited[h]] = "fulfilled"
  /\ pc' = [pc EXCEPT ![h] = "recognize"]
  /\ inflight' = (inflight \ {Pending(h)})
                   \cup {Op(h, "recognize", pageNumber[h])}
  /\ log' = [log EXCEPT ![h] =
               @ \o <<Ev("end", "getOcrWorker", pageNumber[h]),
                      Ev("start", "recognize", pageNumber[h])>>]
  /\ UNCHANGED <<procVars, uiVars, mergeVars, serviceVars, genVars, batchVars, runVars, progVars, seen>>

GetOcrWorkerFail(h) ==
  /\ Settles(h, "getOcrWorker")
  /\ workerPromises[awaited[h]] = "rejected"
  /\ Reject(h, "createWorker")

\* recognize resolves with ocrText; the loop body up to its next await
RecognizeDone(h, ocrText) ==
  /\ Settles(h, "recognize")
  /\ LET p == pageNumber[h]
         done == ProgressOcrDone(progress[h])
         texts == IF HasText(ocrText) THEN Append(pageTexts[h], ocrText)
                  ELSE pageTexts[h]
     IN
     /\ seen' = [seen EXCEPT ![h][p] = [@ EXCEPT !.ocred = TRUE, !.ocr = ocrText]]
     /\ LoopHead(h, numPages[h], NextPage(p), texts, done,
                 Append(events[h], done),
                 Append(log[h], Ev("end", "recognize", p)))
  /\ UNCHANGED <<procVars, uiVars, mergeVars, serviceVars, genVars, batchVars, numPages, failure, awaited>>

RecognizeFail(h) ==
  /\ Settles(h, "recognize")
  /\ Reject(h, "recognize")

\* ------------------------------------------------ DocumentUploader: upload
\* handleFiles returns: its locals and those of its last run go out of scope
Return(h) ==
  /\ pc' = [pc EXCEPT ![h] = "idle"]
  /\ pdfFiles' = [pdfFiles EXCEPT ![h] = <<>>]
  /\ fileIdx' = [fileIdx EXCEPT ![h] = 0]
  /\ processedFiles' = [processedFiles EXCEPT ![h] = <<>>]
  /\ emptyFiles' = [emptyFiles EXCEPT ![h] = <<>>]
  /\ numPages' = [numPages EXCEPT ![h] = 0]
  /\ pageNumber' = [pageNumber EXCEPT ![h] = 0]
  /\ pageTexts' = [pageTexts EXCEPT ![h] = <<>>]
  /\ result' = [result EXCEPT ![h] = <<>>]
  /\ failure' = [failure EXCEPT ![h] = "none"]
  /\ awaited' = [awaited EXCEPT ![h] = 0]
  /\ progress' = [progress EXCEPT ![h] = NoProgress]
  /\ events' = [events EXCEPT ![h] = <<>>]
  /\ log' = [log EXCEPT ![h] = <<>>]
  /\ seen' = [seen EXCEPT ![h] = <<>>]

\* handleFiles up to its first await
HandleFiles(h, files) ==
  /\ pc[h] = "idle"
  /\ \A g \in Handlers : g < h => pc[g] # "idle"
  /\ uploads' = uploads + 1
  /\ LET pdfs == FilterPdf(files) IN
     IF pdfs = <<>>
     THEN /\ error' = PdfOnlyError
          /\ UNCHANGED <<procVars, uploadedFiles, isExtracting, isProcessing, mergeVars, serviceVars, genVars,
                         pdfFiles, fileIdx, processedFiles, emptyFiles,
                         runVars, progVars, pc, inflight, log, seen>>
     ELSE /\ error' = NoError
          /\ isExtracting' = TRUE
          /\ pdfFiles' = [pdfFiles EXCEPT ![h] = pdfs]
          /\ fileIdx' = [fileIdx EXCEPT ![h] = 1]
          /\ processedFiles' = [processedFiles EXCEPT ![h] = <<>>]
          /\ emptyFiles' = [emptyFiles EXCEPT ![h] = <<>>]
          /\ StartRun(h)
          /\ UNCHANGED <<ocrWorkerPromise, workerPromises, uploadedFiles,
                         isProcessing, mergeVars, serviceVars, genVars, extractionStatus>>

\* the file input is rendered with disabled={isBusy}
HandleFileInput(h, files) ==
  /\ ~isBusy
  /\ HandleFiles(h, files)

\* the drop zone calls handleFiles whenever files are dropped
HandleDrop(h, files) == HandleFiles(h, files)

\* the message without the names of the empty files
BatchErrorUnnamed(processed, empties, previous) ==
  IF processed = <<>> THEN NoTextError
  ELSE IF empties # <<>> THEN NoTextInError(<<>>)
  ELSE previous

\* the error state after the loop: setError is called in two of three cases
BatchError(processed, empties, previous) ==
  IF processed = <<>> THEN NoTextError
  ELSE IF empties # <<>> THEN NoTextInError(empties)
  ELSE previous

\* `await extractTextFromPdf(...)` resolves: rest of the loop body, then either
\* the next file or the code after the loop and the finally block
ExtractResolved(h) ==
  /\ pc[h] = "done"
  /\ LET content == result[h]
         file == CurrentFile(h)
         empties == IF HasText(content) THEN emptyFiles[h]
                    ELSE Append(emptyFiles[h], file.name)
         processed == IF HasText(content)
                      THEN Append(processedFiles[h],
                                  [name |-> file.name, content |-> content])
                      ELSE processedFiles[h]
     IN
     IF fileIdx[h] < Len(pdfFiles[h])
        THEN /\ emptyFiles' = [emptyFiles EXCEPT ![h] = empties]
             /\ processedFiles' = [processedFiles EXCEPT ![h] = processed]
             /\ fileIdx' = [fileIdx EXCEPT ![h] = @ + 1]
             /\ StartRun(h)
             /\ UNCHANGED <<ocrWorkerPromise, workerPromises, uiVars, mergeVars, serviceVars, genVars,
                            extractionStatus, pdfFiles, uploads>>
        ELSE /\ error' = BatchError(processed, empties, error)
             /\ uploadedFiles' = IF processed = <<>> THEN uploadedFiles
                                 ELSE uploadedFiles \o processed
             /\ isExtracting' = FALSE
             /\ extractionStatus' = NoStatus
             /\ Return(h)
             /\ UNCHANGED <<procVars, isProcessing, mergeVars, serviceVars, genVars, uploads, inflight>>

\* `await extractTextFromPdf(...)` rejects: the catch and the finally block
ExtractRejected(h) ==
  /\ pc[h] = "failed"
  /\ error' = ExtractError
  /\ isExtracting' = FALSE
  /\ extractionStatus' = NoStatus
  /\ Return(h)
  /\ UNCHANGED <<procVars, uploadedFiles, isProcessing, mergeVars, serviceVars, genVars, uploads, inflight>>

\* ------------------------------------------------ merging of extractions
\* A RadiologyExtraction is a record of the fields of the type.  null is the
\* string "null" in a field of strings and <<>> in birads.value, which is
\* <<n>> for the number n.  summary, evidence entries and red flags are
\* strings as above; exam.type, prior_exam_date and the fields of findings
\* and recommendations are whole values that the merge only compares.
Null == "null"
Y == "y"
DASH == "-"

\* Array.prototype.flat / flatMap(entry => entry)
RECURSIVE Flat(_)
Flat(entries) ==
  IF entries = <<>> THEN <<>> ELSE Head(entries) \o Flat(Tail(entries))

\* Array.prototype.includes
Includes(values, v) == \E i \in DOMAIN values : values[i] = v

\* Array.prototype.indexOf, 0-based, -1 when absent
IndexOf(values, v) ==
  IF Includes(values, v)
  THEN (CHOOSE i \in DOMAIN values :
          values[i] = v /\ \A j \in 1..(i - 1) : values[j] # v) - 1
  ELSE -1

\* a value used as a condition: null and the empty string are falsy
Truthy(v) == v # Null /\ v # ""

\* the first item of each key, in order of first occurrence: what a Set or a
\* Map keeps; keys[i] is the key of items[i]
RECURSIVE UniqueBy(_, _)
UniqueBy(items, keys) ==
  IF items = <<>> THEN <<>>
  ELSE LET n == Len(items)
           init == UniqueBy(SubSeq(items, 1, n - 1), SubSeq(keys, 1, n - 1))
       IN IF \E i \in 1..(n - 1) : keys[i] = keys[n]
          THEN init
          ELSE Append(init, items[n])

\* Array.from(new Set(values))
Unique(values) == UniqueBy(values, values)

\* a sort that leaves the items in the order it found them
SortKeepsOrder(items, rank) == items

\* Array.prototype.sort with the comparator (a, b) => rank[b] - rank[a]:
\* descending by rank, items of equal rank keep their order (the sort is stable)
RECURSIVE SortDescending(_, _)
SortDescending(items, rank) ==
  IF items = <<>> THEN <<>>
  ELSE LET n == Len(items)
           init == SortDescending(SubSeq(items, 1, n - 1), rank)
           k == Cardinality({ i \in DOMAIN init : rank[init[i]] >= rank[items[n]] })
       IN SubSeq(init, 1, k) \o <<items[n]>> \o SubSeq(init, k + 1, Len(init))

\* values.map(value => value.trim())
MapTrim(values) == [i \in DOMAIN values |-> Trim(values[i])]

\* mergeUniqueStrings without the trim
mergeUniqueStringsUntrimmed(values) == Unique(FilterBoolean(values))

mergeUniqueStrings(values) == Unique(FilterBoolean(MapTrim(values)))

\* mergeEvidence that keeps the evidence of the first entry only
mergeEvidenceFirstOnly(entries) ==
  mergeUniqueStrings(IF entries = <<>> THEN <<>> ELSE entries[1])

mergeEvidence(entries) == mergeUniqueStrings(Flat(entries))

\* mergeLaterality without the two rules that yield 'bilateral'
mergeLateralityFirst(values) ==
  LET normalized == SelectSeq(values, LAMBDA v : v # Null)
  IN IF normalized # <<>> THEN normalized[1] ELSE Null

mergeLaterality(values) ==
  LET normalized == SelectSeq(values, LAMBDA v : v # Null)
      hasLeft == Includes(normalized, "left")
      hasRight == Includes(normalized, "right")
  IN IF Includes(normalized, "bilateral") THEN "bilateral"
     ELSE IF hasLeft /\ hasRight THEN "bilateral"
     ELSE IF normalized # <<>> THEN normalized[1] ELSE Null

\* mergeBreastDensity without the sort
mergeBreastDensityUnsorted(values) ==
  LET filtered == SelectSeq(values, LAMBDA v : v # Null)
  IN IF filtered = <<>> THEN Null ELSE filtered[1]

mergeBreastDensity(values) ==
  LET ranking == <<"A", "B", "C", "D">>
      filtered == SelectSeq(values, LAMBDA v : v # Null)
  IN IF filtered = <<>> THEN Null
     ELSE SortDescending(filtered,
            [v \in { filtered[i] : i \in DOMAIN filtered } |->
               IndexOf(ranking, v)])[1]

\* mergeBiradsConfidence that ignores its argument
mergeBiradsConfidenceLow(values) == "low"

mergeBiradsConfidence(values) ==
  LET ranking == <<"low", "medium", "high">>
      filtered == SelectSeq(values, Truthy)
      sorted == SortDescending(filtered,
                  [v \in { filtered[i] : i \in DOMAIN filtered } |->
                     IndexOf(ranking, v)])
  IN IF sorted # <<>> THEN sorted[1] ELSE "low"

\* Date.parse, in days since 1970-01-01 (UTC): <<>> is NaN
DateParse(value) ==
  CASE value = "2023-01-15" -> <<19372>>
    [] value = "2024-06-30" -> <<19904>>
    [] value = "2024-06-30T00:00:00Z" -> <<19904>>
    [] OTHER -> <<>>

\* mergeComparisonDate without the parsing
mergeComparisonDateFirst(values) ==
  LET candidates == SelectSeq(values, Truthy)
  IN IF candidates # <<>> THEN candidates[1] ELSE Null

mergeComparisonDate(values) ==
  LET candidates == SelectSeq(values, Truthy)
      entries == [i \in DOMAIN candidates |->
                    [value |-> candidates[i], time |-> DateParse(candidates[i])]]
      valid == SelectSeq(entries, LAMBDA e : e.time # <<>>)
      parsedDates == SortDescending(valid,
                       [e \in { valid[i] : i \in DOMAIN valid } |-> e.time[1]])
  IN IF Len(parsedDates) > 0 THEN parsedDates[1].value
     ELSE IF candidates # <<>> THEN candidates[1] ELSE Null

\* JSON.stringify of a finding / a recommendation: the values of the keys, in
\* the order of the response schema the objects are parsed under
JSONStringifyFinding(f) ==
  <<f.laterality, f.location, f.description, f.assessment, f.evidence>>

JSONStringifyRecommendation(r) == <<r.action, r.timeframe, r.evidence>>

\* mergeFindings without the Map
mergeFindingsConcat(entries) == Flat(entries)

mergeFindings(entries) ==
  LET flattened == Flat(entries)
  IN UniqueBy(flattened,
              [i \in DOMAIN flattened |-> JSONStringifyFinding(flattened[i])])

\* mergeRecommendations that keeps the entries of the first list only
mergeRecommendationsFirstOnly(entries) ==
  LET flattened == IF entries = <<>> THEN <<>> ELSE entries[1]
  IN UniqueBy(flattened,
              [i \in DOMAIN flattened |->
                 JSONStringifyRecommendation(flattened[i])])

mergeRecommendations(entries) ==
  LET flattened == Flat(entries)
  IN UniqueBy(flattened,
              [i \in DOMAIN flattened |->
                 JSONStringifyRecommendation(flattened[i])])

\* Math.max(...values) of a non-empty list
RECURSIVE MathMax(_)
MathMax(values) ==
  IF Len(values) = 1 THEN values[1]
  ELSE LET rest == MathMax(Tail(values))
       IN IF Head(values) > rest THEN Head(values) ELSE rest

\* biradsValue that takes the first number
biradsValueFirst(exs) ==
  LET biradsValues ==
        Flat([i \in DOMAIN exs |-> exs[i].birads.value])
  IN IF Len(biradsValues) > 0 THEN <<biradsValues[1]>> ELSE <<>>

\* the birads values that are numbers, and their maximum
biradsValue(exs) ==
  LET biradsValues ==
        Flat([i \in DOMAIN exs |-> exs[i].birads.value])
  IN IF Len(biradsValues) > 0 THEN <<MathMax(biradsValues)>> ELSE <<>>

\* summaryParts.map(item => `- ${item}`)
Bullets(parts) == [i \in DOMAIN parts |-> <<DASH, SP>> \o parts[i]]

\* the summary that is a bulleted list even of one part
mergedSummaryAlwaysBullets(summaryParts) ==
  Join(Bullets(summaryParts), <<NL>>)

\* the summary field of the merged extraction
mergedSummary(summaryParts) ==
  IF Len(summaryParts) > 1 THEN Join(Bullets(summaryParts), <<NL>>)
  ELSE IF summaryParts # <<>> THEN summaryParts[1] ELSE <<>>

\* the exam type of the last extraction that has one
examTypeLast(exs) ==
  LET types == SelectSeq([i \in DOMAIN exs |-> exs[i].exam.type], Truthy)
  IN IF types # <<>> THEN types[Len(types)] ELSE Null

\* extractions.find(item => item.exam.type)?.exam.type ?? null
examType(exs) ==
  LET types == SelectSeq([i \in DOMAIN exs |-> exs[i].exam.type], Truthy)
  IN IF types # <<>> THEN types[1] ELSE Null

mergeRadiologyExtractions(exs) ==
  LET summaryParts == mergeUniqueStrings([i \in DOMAIN exs |-> exs[i].summary])
  IN [ summary |-> mergedSummary(summaryParts),
       birads |->
         [ value |-> biradsValue(exs),
           confidence |->
             mergeBiradsConfidence([i \in DOMAIN exs |-> exs[i].birads.confidence]),
           evidence |->
             mergeEvidence([i \in DOMAIN exs |-> exs[i].birads.evidence]) ],
       breast_density |->
         [ value |->
             mergeBreastDensity([i \in DOMAIN exs |-> exs[i].breast_density.value]),
           evidence |->
             mergeEvidence([i \in DOMAIN exs |-> exs[i].breast_density.evidence]) ],
       exam |->
         [ type |-> examType(exs),
           laterality |->
             mergeLaterality([i \in DOMAIN exs |-> exs[i].exam.laterality]),
           evidence |->
             mergeEvidence([i \in DOMAIN exs |-> exs[i].exam.evidence]) ],
       comparison |->
         [ prior_exam_date |->
             mergeComparisonDate(
               [i \in DOMAIN exs |-> exs[i].comparison.prior_exam_date]),
           evidence |->
             mergeEvidence([i \in DOMAIN exs |-> exs[i].comparison.evidence]) ],
       findings |-> mergeFindings([i \in DOMAIN exs |-> exs[i].findings]),
       recommendations |->
         mergeRecommendations([i \in DOMAIN exs |-> exs[i].recommendations]),
       red_flags |->
         mergeUniqueStrings(Flat([i \in DOMAIN exs |-> exs[i].red_flags])) ]

\* a merge that collects the findings by pushing them to the first input's list
ArgumentAfterMergePushing(exs) ==
  [exs EXCEPT ![1].findings = Flat([i \in DOMAIN exs |-> exs[i].findings])]

\* the argument after the call: map, filter, flat and flatMap return new
\* arrays, the three sorts reorder those new arrays and the Maps are local, so
\* no statement of the merge writes to an input or to a list inside it
ArgumentAfterMerge(exs) == exs

\* a call `mergeRadiologyExtractions(extractions)`: the returned value is
\* appended to the values returned so far
MergeCall ==
  /\ Len(merged) < MaxMergeCalls
  /\ extractions # <<>>
  /\ merged' = Append(merged, mergeRadiologyExtractions(extractions))
  /\ extractions' = ArgumentAfterMerge(extractions)
  /\ UNCHANGED <<procVars, uiVars, batchVars, runVars, progVars, pc, inflight,
                 log, seen, serviceVars, genVars>>

\* ------------------------------------------------- inputs of the merge
\* an extraction that reports nothing
EmptyExtraction ==
  [ summary |-> <<>>,
    birads |-> [value |-> <<>>, confidence |-> "low", evidence |-> <<>>],
    breast_density |-> [value |-> Null, evidence |-> <<>>],
    exam |-> [type |-> Null, laterality |-> Null, evidence |-> <<>>],
    comparison |-> [prior_exam_date |-> Null, evidence |-> <<>>],
    findings |-> <<>>,
    recommendations |-> <<>>,
    red_flags |-> <<>> ]

Summaries == { <<SP>>, <<X>>, <<Y>>, <<SP, X>> }
BiradsValues == { <<0>>, <<2>>, <<4>> }
Confidences == { "medium", "high" }
Densities == { "A", "B", "C", "D" }
ExamTypes == { "", "screening mammogram", "diagnostic ultrasound" }
Lateralities == { "left", "right", "bilateral" }
PriorExamDates ==
  { "", "2023-01-15", "2024-06-30", "2024-06-30T00:00:00Z", "last year" }
StringLists ==
  { <<<<X>>>>, <<<<X, SP>>>>, <<<<>>>>, <<<<Y>>, <<X>>>>, <<<<X>>, <<SP, X>>>>,
    <<<<SP>>, <<Y>>>> }

Finding1 ==
  [ laterality |-> "left", location |-> "upper outer quadrant",
    description |-> "mass", assessment |-> "suspicious",
    evidence |-> <<<<X>>>> ]
Finding2 ==
  [ laterality |-> "right", location |-> Null, description |-> "cyst",
    assessment |-> "benign", evidence |-> <<>> ]
Finding3 == [Finding1 EXCEPT !.evidence = <<<<Y>>>>]
FindingLists ==
  { <<Finding1>>, <<Finding2>>, <<Finding3>>, <<Finding1, Finding1>>,
    <<Finding1, Finding2>>, <<Finding2, Finding1>> }

Recommendation1 ==
  [ action |-> "biopsy", timeframe |-> Null, evidence |-> <<<<X>>>> ]
Recommendation2 ==
  [ action |-> "follow-up mammogram", timeframe |-> "6 months",
    evidence |-> <<>> ]
RecommendationLists ==
  { <<Recommendation1>>, <<Recommendation2>>,
    <<Recommendation1, Recommendation1>>,
    <<Recommendation2, Recommendation1>> }

\* the extractions the merge is applied to: EmptyExtraction with one field set
Extractions ==
  {EmptyExtraction}
  \cup { [EmptyExtraction EXCEPT !.summary = s] : s \in Summaries }
  \cup { [EmptyExtraction EXCEPT !.birads.value = v] : v \in BiradsValues }
  \cup { [EmptyExtraction EXCEPT !.birads.confidence = c] : c \in Confidences }
  \cup { [EmptyExtraction EXCEPT !.breast_density.value = d] : d \in Densities }
  \cup { [EmptyExtraction EXCEPT !.exam.type = t] : t \in ExamTypes }
  \cup { [EmptyExtraction EXCEPT !.exam.laterality = l] : l \in Lateralities }
  \cup { [EmptyExtraction EXCEPT !.comparison.prior_exam_date = d] :
           d \in PriorExamDates }
  \cup { [EmptyExtraction EXCEPT !.birads.evidence = e] : e \in StringLists }
  \cup { [EmptyExtraction EXCEPT !.breast_density.evidence = e] :
           e \in StringLists }
  \cup { [EmptyExtraction EXCEPT !.exam.evidence = e] : e \in StringLists }
  \cup { [EmptyExtraction EXCEPT !.comparison.evidence = e] : e \in StringLists }
  \cup { [EmptyExtraction EXCEPT !.red_flags = e] : e \in StringLists }
  \cup { [EmptyExtraction EXCEPT !.findings = f] : f \in FindingLists }
  \cup { [EmptyExtraction EXCEPT !.recommendations = r] :
           r \in RecommendationLists }

ExtractionLists == SeqsUpTo(Extractions, MaxExtractions) \ {<<>>}

\* ---------------------------------------------------------- openaiService
\* `reportText.trim().length < 50`
MinReportLength == 50

\* undefined, for response.output_text
Undefined == "undefined"

\* a thrown value: the status of a provider error (0 when it has none) and
\* its message
Thrown(status, message) == [status |-> status, message |-> message]

KeyNotFound ==
  Thrown(0, "OpenAI API key not found. Please add VITE_OPENAI_API_KEY to your environment variables.")
TooShort == Thrown(0, "Radiology report text is too short to summarize.")
NoStructuredOutput == Thrown(0, "No structured output returned from OpenAI.")
NoSummary == Thrown(0, "No summary generated from OpenAI response")
SyntaxError == Thrown(0, "Unexpected token")

\* what openai.responses.create may reject with
ProviderErrors ==
  { Thrown(401, "Unauthorized"), Thrown(429, "Too Many Requests"),
    Thrown(402, "Payment Required"), Thrown(500, "Boom"), Thrown(0, "") }

\* the error the catch block of summarizeRadiologyReportJson throws
RadiologyError(e) ==
  CASE e.status = 401 -> <<"Invalid OpenAI API key.">>
    [] e.status = 429 -> <<"OpenAI API rate limit exceeded.">>
    [] e.status = 402 -> <<"OpenAI API quota exceeded.">>
    [] OTHER -> <<"Failed to extract radiology report: ",
                  IF e.message # "" THEN e.message ELSE "Unknown error">>

\* the error the catch block of summarizeDocument throws
DocumentError(e) ==
  CASE e.status = 401 ->
         <<"Invalid OpenAI API key. Please check your configuration.">>
    [] e.status = 429 ->
         <<"OpenAI API rate limit exceeded. Please try again later.">>
    [] e.status = 402 ->
         <<"OpenAI API quota exceeded. Please check your account billing.">>
    [] e = KeyNotFound ->
         <<"OpenAI API key not configured. Please add VITE_OPENAI_API_KEY to your environment.">>
    [] OTHER -> <<"Failed to generate summary: ",
                  IF e.message # "" THEN e.message ELSE "Unknown error">>

\* the length test on the text as given
IsTooShortUntrimmed(reportText) ==
  reportText = <<>> \/ Len(reportText) < MinReportLength

\* `!reportText || reportText.trim().length < 50`
IsTooShort(reportText) ==
  reportText = <<>> \/ Len(Trim(reportText)) < MinReportLength

\* `response.output_text?.trim()`
OutputText(outputText) ==
  IF outputText = Undefined THEN Undefined ELSE Trim(outputText)

\* a value used as a condition: undefined and the empty string are falsy
IsFalsyText(text) == text = Undefined \/ text = <<>>

\* JSON.parse: "{}" stands for a document of the response schema and parses
\* to an extraction, any other text is a syntax error, reported as <<>>
JSONParse(jsonText) ==
  IF jsonText = <<"{", "}">> THEN <<EmptyExtraction>> ELSE <<>>

Unsettled == [state |-> "pending", value |-> <<>>]
Resolved(value) == [state |-> "resolved", value |-> value]
Rejected(value) == [state |-> "rejected", value |-> value]

\* summarizeRadiologyReportJson(reportText) up to its first await
RadiologyCall(reportText) ==
  /\ svcPc = "idle"
  /\ svcCall' = "summarizeRadiologyReportJson"
  /\ svcArg' = reportText
  /\ IF ~apiKey
     THEN /\ settled' = Rejected(RadiologyError(KeyNotFound))
          /\ svcPc' = "returned"
          /\ UNCHANGED requests
     ELSE IF IsTooShort(reportText)
     THEN /\ settled' = Rejected(RadiologyError(TooShort))
          /\ svcPc' = "returned"
          /\ UNCHANGED requests
     ELSE /\ requests' = requests + 1
          /\ svcPc' = "radiologyRequest"
          /\ UNCHANGED settled
  /\ UNCHANGED <<procVars, uiVars, batchVars, runVars, progVars, pc, inflight,
                 log, seen, mergeVars, genVars, apiKey, docIdx, summaries,
                 docOutcomes>>

\* the request resolves with a response whose output_text is outputText
RadiologyResponse(outputText) ==
  /\ svcPc = "radiologyRequest"
  /\ LET jsonText == OutputText(outputText) IN
     settled' =
       IF IsFalsyText(jsonText) THEN Rejected(RadiologyError(NoStructuredOutput))
       ELSE IF JSONParse(jsonText) = <<>> THEN Rejected(RadiologyError(SyntaxError))
       ELSE Resolved(JSONParse(jsonText)[1])
  /\ svcPc' = "returned"
  /\ UNCHANGED <<procVars, uiVars, batchVars, runVars, progVars, pc, inflight,
                 log, seen, mergeVars, genVars, apiKey, svcCall, svcArg,
                 requests, docIdx, summaries, docOutcomes>>

\* the request rejects with e
RadiologyRequestFail(e) ==
  /\ svcPc = "radiologyRequest"
  /\ settled' = Rejected(RadiologyError(e))
  /\ svcPc' = "returned"
  /\ UNCHANGED <<procVars, uiVars, batchVars, runVars, progVars, pc, inflight,
                 log, seen, mergeVars, genVars, apiKey, svcCall, svcArg,
                 requests, docIdx, summaries, docOutcomes>>

\* the text batchSummarizeDocuments puts in place of a summary
FallbackSummary == <<"Failed to generate summary for this document.">>

\* a loop that ends at the first failure
BatchContinuesUntilFailure(docs, idx, sums) ==
  idx <= Len(docs) /\ (sums = <<>> \/ sums[Len(sums)] # FallbackSummary)

\* `for (const document of documents)`: there is a document at position idx
BatchContinues(docs, idx, sums) == idx <= Len(docs)

\* summarizeDocument settled: with the summary it returned, or with the
\* error it threw
Summarized(summary) == [ok |-> TRUE, value |-> summary]
NotSummarized(e) == [ok |-> FALSE, value |-> e]

\* the for-of loop of batchSummarizeDocuments at position idx with the
\* accumulator sums, up to the next await: summarizeDocument(document, ...)
\* up to its own first await, or the return statement; outs is the history
BatchLoopHead(docs, idx, sums, outs) ==
  /\ docIdx' = idx
  /\ summaries' = sums
  /\ IF ~BatchContinues(docs, idx, sums)
     THEN /\ settled' = Resolved(sums)
          /\ svcPc' = "returned"
          /\ docOutcomes' = outs
          /\ UNCHANGED requests
     ELSE IF ~apiKey
     THEN /\ svcPc' = "documentRejected"
          /\ docOutcomes' = Append(outs, NotSummarized(DocumentError(KeyNotFound)))
          /\ UNCHANGED <<requests, settled>>
     ELSE /\ svcPc' = "documentRequest"
          /\ requests' = requests + 1
          /\ docOutcomes' = outs
          /\ UNCHANGED settled

\* batchSummarizeDocuments(documents) up to its first await
BatchCall(documents) ==
  /\ svcPc = "idle"
  /\ svcCall' = "batchSummarizeDocuments"
  /\ svcArg' = documents
  /\ BatchLoopHead(documents, 1, <<>>, <<>>)
  /\ UNCHANGED <<procVars, uiVars, batchVars, runVars, progVars, pc, inflight,
                 log, seen, mergeVars, genVars, apiKey>>

\* the request of summarizeDocument resolves with a response whose output_text
\* is outputText: summarizeDocument returns the summary, which is pushed, and
\* the delay is started; or it throws for want of a summary
DocumentResponse(outputText) ==
  /\ svcPc = "documentRequest"
  /\ LET summary == OutputText(outputText) IN
     IF IsFalsyText(summary)
     THEN /\ svcPc' = "documentRejected"
          /\ docOutcomes' =
               Append(docOutcomes, NotSummarized(DocumentError(NoSummary)))
          /\ UNCHANGED summaries
     ELSE /\ svcPc' = "delay"
          /\ summaries' = Append(summaries, summary)
          /\ docOutcomes' = Append(docOutcomes, Summarized(summary))
  /\ UNCHANGED <<procVars, uiVars, batchVars, runVars, progVars, pc, inflight,
                 log, seen, mergeVars, genVars, apiKey, svcCall, svcArg,
                 requests, settled, docIdx>>

\* the request of summarizeDocument rejects with e
DocumentRequestFail(e) ==
  /\ svcPc = "documentRequest"
  /\ svcPc' = "documentRejected"
  /\ docOutcomes' = Append(docOutcomes, NotSummarized(DocumentError(e)))
  /\ UNCHANGED <<procVars, uiVars, batchVars, runVars, progVars, pc, inflight,
                 log, seen, mergeVars, genVars, apiKey, svcCall, svcArg,
                 requests, settled, docIdx, summaries>>

\* `await summarizeDocument(...)` throws: the catch block pushes the fallback,
\* then the next iteration
DocumentCatch ==
  /\ svcPc = "documentRejected"
  /\ BatchLoopHead(svcArg, docIdx + 1, Append(summaries, FallbackSummary),
                   docOutcomes)
  /\ UNCHANGED <<procVars, uiVars, batchVars, runVars, progVars, pc, inflight,
                 log, seen, mergeVars, genVars, apiKey, svcCall, svcArg>>

\* the 500 ms delay after a summary elapses, then the next iteration
DelayDone ==
  /\ svcPc = "delay"
  /\ BatchLoopHead(svcArg, docIdx + 1, summaries, docOutcomes)
  /\ UNCHANGED <<procVars, uiVars, batchVars, runVars, progVars, pc, inflight,
                 log, seen, mergeVars, genVars, apiKey, svcCall, svcArg>>

\* ---------------------------------------------- inputs of openaiService
\* n times the character c
Repeat(c, n) == [i \in 1..n |-> c]

\* report texts: up to MaxReportLength non-whitespace characters between up to
\* MaxPadding spaces on either side
ReportTexts ==
  { Repeat(SP, a) \o Repeat(X, n) \o Repeat(SP, b) :
      a \in 0..MaxPadding, n \in 0..MaxReportLength, b \in 0..MaxPadding }

\* what a response may carry as output_text
OutputTexts ==
  { Undefined, <<>>, <<SP>>, <<X>>, <<SP, X, NL>>, <<"{", "}">>,
    <<SP, "{", "}", NL>> }

Documents == { <<X>>, <<Y>> }
DocumentLists == SeqsUpTo(Documents, MaxDocuments)

\* ------------------------------------------- component: generate handlers
UploadFirstError ==
  [msg |-> "Please upload at least one PDF document", names |-> <<>>]
UploadFirstRadiologyError ==
  [msg |-> "Please upload at least one PDF document.", names |-> <<>>]
SummariesFailedError ==
  [msg |-> "Failed to generate summaries. Please check your API configuration.",
   names |-> <<>>]
RadiologyFailedError ==
  [msg |-> "Failed to extract radiology data from the selected PDFs.",
   names |-> <<>>]
RadiologyExtractError ==
  [msg |-> "Error extracting radiology data. Please try again.", names |-> <<>>]

\* the generate buttons: disabled={isBusy || uploadedFiles.length === 0}
GenerateEnabled == ~isBusy /\ uploadedFiles # <<>>

\* an entry of genLog: the call for the file of that name settled
Called(name, ok, value) == [name |-> name, ok |-> ok, value |-> value]

\* the DocumentSummary generateSummaries pushes for a file
FileSummary(file, summary) ==
  [filename |-> file.name, content |-> file.content, summary |-> summary]

\* the first line of formatRadiologySummary; the lines after it render the
\* fields of the extraction, kept here as the extraction
FormatRadiologySummary(extraction, count) ==
  [header |-> <<"Radiology batch summary (", count, " reports)">>,
   fields |-> extraction]

\* the report for the files uploaded
ReportCountOfFiles(files, exs) == Len(files)

\* the count the batch report shows: extractions.length
ReportCount(files, exs) == Len(exs)

\* the DocumentSummary of the single-file path
SingleReport(file, extraction) ==
  [filename |-> <<"Radiology extraction (", file.name, ")">>,
   content |-> file.content,
   summary |-> FormatRadiologySummary(extraction, 1),
   radiologyJson |-> extraction]

\* the DocumentSummary of the multi-file path; combinedContent is kept as the
\* list of the files' names and contents
BatchReport(files, exs, mergedExtraction) ==
  [filename |-> <<"Radiology batch (", ReportCount(files, exs), " PDFs)">>,
   content |-> [i \in DOMAIN files |->
                  <<"--- ", files[i].name, " ---", NL, files[i].content>>],
   summary |-> FormatRadiologySummary(mergedExtraction, ReportCount(files, exs)),
   radiologyJson |-> mergedExtraction]

\* a loop that is left when a call has failed
LoopGoesOnUnlessFailed(files, idx, ok) == ok /\ idx < Len(files)

\* the for-of loops over uploadedFiles: another file follows the one at idx;
\* the try block inside the loop keeps a failed call from ending it
LoopGoesOn(files, idx, ok) == idx < Len(files)

\* a finally block that is skipped by the return of the try block
ProcessingAfterRunUnlessReturned(returned) == returned

\* the finally blocks: setIsProcessing(false)
ProcessingAfterRun(returned) == FALSE

\* the handler returns: its locals are gone
GenReturn ==
  /\ genPc' = "idle"
  /\ genFiles' = <<>>
  /\ genIdx' = 0
  /\ genResults' = <<>>

\* generateSummaries up to its first await
GenerateSummaries ==
  /\ genPc = "idle"
  /\ GenerateEnabled
  /\ genRuns' = genRuns + 1
  /\ IF uploadedFiles = <<>>
     THEN /\ error' = UploadFirstError
          /\ UNCHANGED <<isProcessing, isRadiologyProcessing, genPc, genFiles,
                         genIdx, genResults, genLog>>
     ELSE /\ isProcessing' = TRUE
          /\ isRadiologyProcessing' = FALSE
          /\ error' = NoError
          /\ genPc' = "summarizeDocument"
          /\ genFiles' = uploadedFiles
          /\ genIdx' = 1
          /\ genResults' = <<>>
          /\ genLog' = <<>>
  /\ UNCHANGED <<procVars, uploadedFiles, isExtracting, batchVars, runVars,
                 progVars, pc, inflight, log, seen, mergeVars, serviceVars,
                 emitted>>

\* generateSummaries after the call for the current file settled, with the
\* accumulator results: the next call, or the code after the loop and the
\* finally block
SummariesLoop(results, ok) ==
  IF LoopGoesOn(genFiles, genIdx, ok)
  THEN /\ genIdx' = genIdx + 1
       /\ genResults' = results
       /\ UNCHANGED <<genPc, genFiles, uploadedFiles, error, isProcessing,
                      emitted>>
  ELSE /\ IF Len(results) > 0
          THEN /\ emitted' = Append(emitted, results)
               /\ uploadedFiles' = <<>>
               /\ UNCHANGED error
          ELSE /\ error' = SummariesFailedError
               /\ UNCHANGED <<emitted, uploadedFiles>>
       /\ isProcessing' = ProcessingAfterRun(FALSE)
       /\ GenReturn

\* `await summarizeDocument(file.content)` resolves
SummarizeDone(summary) ==
  /\ genPc = "summarizeDocument"
  /\ LET file == genFiles[genIdx] IN
     /\ genLog' = Append(genLog, Called(file.name, TRUE, summary))
     /\ SummariesLoop(Append(genResults, FileSummary(file, summary)), TRUE)
  /\ UNCHANGED <<procVars, isExtracting, batchVars, runVars, progVars, pc,
                 inflight, log, seen, mergeVars, serviceVars,
                 isRadiologyProcessing, genRuns>>

\* `await summarizeDocument(file.content)` rejects: the inner catch
SummarizeFail ==
  /\ genPc = "summarizeDocument"
  /\ genLog' = Append(genLog, Called(genFiles[genIdx].name, FALSE, <<>>))
  /\ SummariesLoop(genResults, FALSE)
  /\ UNCHANGED <<procVars, isExtracting, batchVars, runVars, progVars, pc,
                 inflight, log, seen, mergeVars, serviceVars,
                 isRadiologyProcessing, genRuns>>

\* generateRadiologyBatchSummary up to its first await
GenerateRadiologyBatchSummary ==
  /\ genPc = "idle"
  /\ GenerateEnabled
  /\ genRuns' = genRuns + 1
  /\ IF uploadedFiles = <<>>
     THEN /\ error' = UploadFirstRadiologyError
          /\ UNCHANGED <<isProcessing, isRadiologyProcessing, genPc, genFiles,
                         genIdx, genResults, genLog>>
     ELSE /\ isProcessing' = TRUE
          /\ isRadiologyProcessing' = TRUE
          /\ error' = NoError
          /\ genPc' = IF Len(uploadedFiles) = 1 THEN "extractSingle"
                      ELSE "extractMulti"
          /\ genFiles' = uploadedFiles
          /\ genIdx' = 1
          /\ genResults' = <<>>
          /\ genLog' = <<>>
  /\ UNCHANGED <<procVars, uploadedFiles, isExtracting, batchVars, runVars,
                 progVars, pc, inflight, log, seen, mergeVars, serviceVars,
                 emitted>>

\* single file: `await summarizeRadiologyReportJson(file.content)` resolves
ExtractSingleDone(extraction) ==
  /\ genPc = "extractSingle"
  /\ LET file == genFiles[1] IN
     /\ genLog' = Append(genLog, Called(file.name, TRUE, extraction))
     /\ emitted' = Append(emitted, <<SingleReport(file, extraction)>>)
  /\ isRadiologyProcessing' = FALSE
  /\ isProcessing' = ProcessingAfterRun(FALSE)
  /\ GenReturn
  /\ UNCHANGED <<procVars, uploadedFiles, error, isExtracting, batchVars,
                 runVars, progVars, pc, inflight, log, seen, mergeVars,
                 serviceVars, genRuns>>

\* single file: the call rejects: the outer catch
ExtractSingleFail ==
  /\ genPc = "extractSingle"
  /\ genLog' = Append(genLog, Called(genFiles[1].name, FALSE, <<>>))
  /\ error' = RadiologyExtractError
  /\ isRadiologyProcessing' = FALSE
  /\ isProcessing' = ProcessingAfterRun(FALSE)
  /\ GenReturn
  /\ UNCHANGED <<procVars, uploadedFiles, isExtracting, batchVars, runVars,
                 progVars, pc, inflight, log, seen, mergeVars, serviceVars,
                 emitted, genRuns>>

\* several files, after the call for the current file settled, with the
\* accumulator exs: the next call, or the code after the loop (the merge, the
\* report) and the finally block
ExtractionsLoop(exs, ok) ==
  IF LoopGoesOn(genFiles, genIdx, ok)
  THEN /\ genIdx' = genIdx + 1
       /\ genResults' = exs
       /\ UNCHANGED <<genPc, genFiles, error, isProcessing,
                      isRadiologyProcessing, emitted, mergeVars>>
  ELSE /\ IF Len(exs) = 0
          THEN /\ error' = RadiologyFailedError
               /\ isProcessing' = ProcessingAfterRun(TRUE)
               /\ UNCHANGED <<emitted, mergeVars>>
          ELSE /\ extractions' = ArgumentAfterMerge(exs)
               /\ merged' = Append(merged, mergeRadiologyExtractions(exs))
               /\ emitted' =
                    Append(emitted,
                           <<BatchReport(genFiles, exs,
                                         mergeRadiologyExtractions(exs))>>)
               /\ isProcessing' = ProcessingAfterRun(FALSE)
               /\ UNCHANGED error
       /\ isRadiologyProcessing' = FALSE
       /\ GenReturn

\* several files: `await summarizeRadiologyReportJson(file.content)` resolves
ExtractMultiDone(extraction) ==
  /\ genPc = "extractMulti"
  /\ genLog' = Append(genLog, Called(genFiles[genIdx].name, TRUE, extraction))
  /\ ExtractionsLoop(Append(genResults, extraction), TRUE)
  /\ UNCHANGED <<procVars, uploadedFiles, isExtracting, batchVars, runVars,
                 progVars, pc, inflight, log, seen, serviceVars, genRuns>>

\* several files: the call rejects: the inner catch
ExtractMultiFail ==
  /\ genPc = "extractMulti"
  /\ genLog' = Append(genLog, Called(genFiles[genIdx].name, FALSE, <<>>))
  /\ ExtractionsLoop(genResults, FALSE)
  /\ UNCHANGED <<procVars, uploadedFiles, isExtracting, batchVars, runVars,
                 progVars, pc, inflight, log, seen, serviceVars, genRuns>>

\* ------------------------------------------ inputs of the generate handlers
\* files as handleFiles adds them: a name and a content that is not blank
UploadedFiles ==
  { [name |-> "a", content |-> <<X>>], [name |-> "b", content |-> <<Y, NL, X>>] }

\* the lists of uploaded files a generate handler may find
UploadedLists == SeqsUpTo(UploadedFiles, MaxFiles)

\* what summarizeDocument may resolve with
DocumentSummaries == { <<X>>, <<Y>> }

\* what summarizeRadiologyReportJson may resolve with
RadiologyExtractions ==
  { [EmptyExtraction EXCEPT !.birads.value = <<2>>],
    [EmptyExtraction EXCEPT !.birads.value = <<4>>, !.summary = <<X>>] }

\* ---------------------------------------------------------- specifications
\* the component under any interleaving of upload events: uploads of one file,
\* one-page documents and small page contents, two invocations of handleFiles
\* at a time
Next ==
  \E h \in Handlers :
    \/ \E files \in SingleFiles : uploads < MaxUploads /\ HandleFileInput(h, files)
    \/ \E files \in SingleFiles : uploads < MaxUploads /\ HandleDrop(h, files)
    \/ ArrayBufferDone(h)
    \/ \E n \in PageCountsSmall : GetDocumentDone(h, n)
    \/ GetDocumentFail(h)
    \/ TextGetPageDone(h)
    \/ TextGetPageFail(h)
    \/ \E items \in PageItemsSmall : GetTextContentDone(h, items)
    \/ \E hasContext \in BOOLEAN : RenderGetPageDone(h, hasContext)
    \/ RenderGetPageFail(h)
    \/ RenderDone(h)
    \/ RenderFail(h)
    \/ GetOcrWorkerDone(h)
    \/ GetOcrWorkerFail(h)
    \/ \E ocrText \in OcrTextsSmall : RecognizeDone(h, ocrText)
    \/ RecognizeFail(h)
    \/ ExtractResolved(h)
    \/ ExtractRejected(h)
    \/ \E id \in DOMAIN workerPromises : CreateWorkerDone(id)
    \/ \E id \in DOMAIN workerPromises : CreateWorkerFail(id)

Spec == Init /\ [][Next]_vars

\* the component under upload events that arrive one after the other: batches
\* of up to MaxBatch files, one-page documents and small page contents
NextBatch ==
  \/ \E files \in Batches : uploads < MaxUploads /\ HandleFileInput(1, files)
  \/ \E files \in Batches : uploads < MaxUploads /\ HandleDrop(1, files)
  \/ ArrayBufferDone(1)
  \/ \E n \in PageCountsSmall : GetDocumentDone(1, n)
  \/ GetDocumentFail(1)
  \/ TextGetPageDone(1)
  \/ TextGetPageFail(1)
  \/ \E items \in PageItemsSmall : GetTextContentDone(1, items)
  \/ \E hasContext \in BOOLEAN : RenderGetPageDone(1, hasContext)
  \/ RenderGetPageFail(1)
  \/ RenderDone(1)
  \/ RenderFail(1)
  \/ \E id \in DOMAIN workerPromises : CreateWorkerDone(id)
  \/ \E id \in DOMAIN workerPromises : CreateWorkerFail(id)
  \/ GetOcrWorkerDone(1)
  \/ GetOcrWorkerFail(1)
  \/ \E ocrText \in OcrTextsSmall : RecognizeDone(1, ocrText)
  \/ RecognizeFail(1)
  \/ ExtractResolved(1)
  \/ ExtractRejected(1)

SpecBatch == Init /\ [][NextBatch]_vars

\* one upload of one PDF file: documents of up to MaxPages pages, every page
\* content and every OCR text of the input sets
OneFile == { <<f>> : f \in {g \in Files : IsPdfFile(g)} }

NextPdf ==
  \/ \E files \in OneFile : uploads < 1 /\ HandleFileInput(1, files)
  \/ ArrayBufferDone(1)
  \/ \E n \in 1..MaxPages : GetDocumentDone(1, n)
  \/ GetDocumentFail(1)
  \/ TextGetPageDone(1)
  \/ TextGetPageFail(1)
  \/ \E items \in PageItems : GetTextContentDone(1, items)
  \/ \E hasContext \in BOOLEAN : RenderGetPageDone(1, hasContext)
  \/ RenderGetPageFail(1)
  \/ RenderDone(1)
  \/ RenderFail(1)
  \/ \E id \in DOMAIN workerPromises : CreateWorkerDone(id)
  \/ \E id \in DOMAIN workerPromises : CreateWorkerFail(id)
  \/ GetOcrWorkerDone(1)
  \/ GetOcrWorkerFail(1)
  \/ \E ocrText \in OcrTexts : RecognizeDone(1, ocrText)
  \/ RecognizeFail(1)
  \/ ExtractResolved(1)
  \/ ExtractRejected(1)

SpecPdf == Init /\ [][NextPdf]_vars

\* the merge as a function of its argument: every list of up to MaxExtractions
\* extractions of the input set, merged up to MaxMergeCalls times
InitMerge ==
  /\ ComponentIdle
  /\ extractions \in ExtractionLists
  /\ merged = <<>>
  /\ apiKey = TRUE
  /\ ServiceIdle
  /\ GenerationIdle

NextMerge == MergeCall

SpecMerge == InitMerge /\ [][NextMerge]_vars

\* one call of an exported function of openaiService, with and without an
\* API key, under every outcome of its requests
InitService ==
  /\ ComponentIdle
  /\ extractions = <<>>
  /\ merged = <<>>
  /\ apiKey \in BOOLEAN
  /\ ServiceIdle
  /\ GenerationIdle

NextService ==
  \/ \E reportText \in ReportTexts : RadiologyCall(reportText)
  \/ \E outputText \in OutputTexts : RadiologyResponse(outputText)
  \/ \E e \in ProviderErrors : RadiologyRequestFail(e)
  \/ \E documents \in DocumentLists : BatchCall(documents)
  \/ \E outputText \in OutputTexts : DocumentResponse(outputText)
  \/ \E e \in ProviderErrors : DocumentRequestFail(e)
  \/ DocumentCatch
  \/ DelayDone

SpecService == InitService /\ [][NextService]_vars

\* the generate handlers on files uploaded before: every list of up to
\* MaxFiles files, every outcome of the calls of the service, up to MaxRuns
\* runs
InitGen ==
  /\ UploaderIdle
  /\ uploadedFiles \in UploadedLists
  /\ extractions = <<>>
  /\ merged = <<>>
  /\ apiKey = TRUE
  /\ ServiceIdle
  /\ GenerationIdle

NextGen ==
  \/ genRuns < MaxRuns /\ GenerateSummaries
  \/ \E summary \in DocumentSummaries : SummarizeDone(summary)
  \/ SummarizeFail
  \/ genRuns < MaxRuns /\ GenerateRadiologyBatchSummary
  \/ \E extraction \in RadiologyExtractions : ExtractSingleDone(extraction)
  \/ ExtractSingleFail
  \/ \E extraction \in RadiologyExtractions : ExtractMultiDone(extraction)
  \/ ExtractMultiFail

SpecGen == InitGen /\ [][NextGen]_vars

\* the component with no, one or two files uploaded before, under one more
\* upload of one file and one run of a generate handler, in any interleaving;
\* every external call that has been started eventually settles
LiveLists ==
  { <<>>,
    <<[name |-> "a", content |-> <<X>>]>>,
    <<[name |-> "a", content |-> <<X>>], [name |-> "b", content |-> <<Y, NL, X>>]>> }

LiveSummaries == { <<X>> }

LiveExtractions == { [EmptyExtraction EXCEPT !.birads.value = <<2>>] }

InitLive ==
  /\ UploaderIdle
  /\ uploadedFiles \in LiveLists
  /\ extractions = <<>>
  /\ merged = <<>>
  /\ apiKey = TRUE
  /\ ServiceIdle
  /\ GenerationIdle

UploadSettles ==
  \/ ArrayBufferDone(1)
  \/ \E n \in PageCountsSmall : GetDocumentDone(1, n)
  \/ GetDocumentFail(1)
  \/ TextGetPageDone(1)
  \/ TextGetPageFail(1)
  \/ \E items \in PageItemsSmall : GetTextContentDone(1, items)
  \/ \E hasContext \in BOOLEAN : RenderGetPageDone(1, hasContext)
  \/ RenderGetPageFail(1)
  \/ RenderDone(1)
  \/ RenderFail(1)
  \/ \E id \in DOMAIN workerPromises : CreateWorkerDone(id)
  \/ \E id \in DOMAIN workerPromises : CreateWorkerFail(id)
  \/ GetOcrWorkerDone(1)
  \/ GetOcrWorkerFail(1)
  \/ \E ocrText \in OcrTextsSmall : RecognizeDone(1, ocrText)
  \/ RecognizeFail(1)
  \/ ExtractResolved(1)
  \/ ExtractRejected(1)

GenerateSettles ==
  \/ \E summary \in LiveSummaries : SummarizeDone(summary)
  \/ SummarizeFail
  \/ \E extraction \in LiveExtractions : ExtractSingleDone(extraction)
  \/ ExtractSingleFail
  \/ \E extraction \in LiveExtractions : ExtractMultiDone(extraction)
  \/ ExtractMultiFail

NextLive ==
  \/ \E files \in OneFile : uploads < 1 /\ HandleFileInput(1, files)
  \/ \E files \in OneFile : uploads < 1 /\ HandleDrop(1, files)
  \/ genRuns < 1 /\ GenerateSummaries
  \/ genRuns < 1 /\ GenerateRadiologyBatchSummary
  \/ UploadSettles
  \/ GenerateSettles

SpecLive ==
  /\ InitLive
  /\ [][NextLive]_vars
  /\ WF_vars(UploadSettles)
  /\ WF_vars(GenerateSettles)

\* ------------------------------------------------------ claims: helpers
Range(f) == { f[i] : i \in DOMAIN f }

\* the operations one run starts on its own behalf (createWorker is shared)
RunLog(h) == SelectSeq(log[h], LAMBDA e : e.op # "createWorker")

Starts(h, op, page) ==
  { i \in DOMAIN log[h] :
      log[h][i].ev = "start" /\ log[h][i].op = op /\ log[h][i].page = page }

OpsInFlight(h) == { o \in inflight : o.h = h }

OcrOps == {"render_getPage", "render", "createWorker", "getOcrWorker", "recognize"}

\* C1: createWorker is invoked at most once, every getOcrWorker call awaits
\* the promise of that one invocation, and a recognition is started only on the
\* worker it resolved to
C1_SingleWorkerCreation ==
  /\ Len(workerPromises) <= 1
  /\ \A h \in Handlers :
       awaited[h] # 0 => awaited[h] = 1 /\ ocrWorkerPromise = 1
  /\ \A h \in Handlers :
       pc[h] = "recognize" => workerPromises[awaited[h]] = "fulfilled"

\* two calls of getOcrWorker wait while the one creation is still pending
C1_Witness ==
  /\ pc[1] = "getOcrWorker" /\ pc[2] = "getOcrWorker"
  /\ workerPromises = <<"pending">>
  /\ awaited[1] = 1 /\ awaited[2] = 1

\* C2: within a run the pages are handled in the order 1..N, one operation at
\* a time: an operation is started only when the one before it has ended, the
\* text read of page n+1 only after page n ended (its text read if that found
\* text, otherwise its recognition), OCR of page n only after its text read
\* ended and found no text, and a finished run has handled all N pages
C2_PagesInOrder ==
  \A h \in Handlers :
    LET lg == RunLog(h) IN
    /\ Cardinality(OpsInFlight(h)) <= 1
    /\ \A i \in DOMAIN lg :
         /\ i < Len(lg) => lg[i].page <= lg[i + 1].page
         /\ (i < Len(lg) /\ lg[i].ev = "start") =>
              /\ lg[i + 1].ev \in {"end", "fail"}
              /\ lg[i + 1].op = lg[i].op /\ lg[i + 1].page = lg[i].page
         /\ (i > 1 /\ lg[i].ev = "start") => lg[i - 1].ev = "end"
         /\ (lg[i].ev = "start" /\ lg[i].op = "text_getPage") =>
              /\ lg[i].page = Cardinality({ j \in 1..i :
                     lg[j].ev = "start" /\ lg[j].op = "text_getPage" })
              /\ lg[i].page > 1 =>
                   \/ /\ lg[i - 1] = Ev("end", "getTextContent", lg[i].page - 1)
                      /\ HasText(seen[h][lg[i].page - 1].text)
                   \/ lg[i - 1] = Ev("end", "recognize", lg[i].page - 1)
         /\ (lg[i].ev = "start" /\ lg[i].op = "render_getPage") =>
              /\ lg[i - 1] = Ev("end", "getTextContent", lg[i].page)
              /\ ~HasText(seen[h][lg[i].page].text)
         /\ (lg[i].ev = "start" /\ lg[i].op = "recognize") =>
              lg[i - 1] = Ev("end", "getOcrWorker", lg[i].page)
    /\ pc[h] = "done" => Len(seen[h]) = numPages[h]

\* a finished run of two pages: page 1 went through OCR, page 2 had text
C2_Witness ==
  /\ pc[1] = "done" /\ numPages[1] = 2
  /\ seen[1][1].ocred /\ ~seen[1][2].ocred
  /\ Starts(1, "recognize", 1) # {} /\ Starts(1, "text_getPage", 2) # {}

\* C3: at most one extractTextFromPdf run is in progress at any moment, and
\* the shared worker never has two recognitions in flight
C3_OneRunAtATime ==
  /\ Cardinality({ h \in Handlers : RunInProgress(h) }) <= 1
  /\ Cardinality({ o \in inflight : o.op = "recognize" }) <= 1

\* C3, second half alone: the shared worker never has two recognitions in flight
C3_OneRecognitionAtATime ==
  Cardinality({ o \in inflight : o.op = "recognize" }) <= 1

\* C4: while every page read so far had non-whitespace embedded text, the run
\* has rendered no page, created no worker and started no recognition
C4_TextOnlyNeverOcr ==
  \A h \in Handlers :
    (\A i \in DOMAIN seen[h] : HasText(seen[h][i].text)) =>
      /\ \A i \in DOMAIN log[h] : log[h][i].op \notin OcrOps
      /\ \A o \in OpsInFlight(h) : o.op \notin OcrOps
      /\ awaited[h] = 0

\* a finished run over two pages that both carry text
C4_Witness ==
  /\ pc[1] = "done" /\ numPages[1] = 2 /\ Len(seen[1]) = 2
  /\ \A i \in 1..2 : HasText(seen[1][i].text)
  /\ Len(pageTexts[1]) = 2

FailureOf(op) ==
  CASE op = "getDocument" -> "getDocument"
    [] op \in {"text_getPage", "render_getPage"} -> "getPage"
    [] op = "render" -> "render"
    [] op = "getOcrWorker" -> "createWorker"
    [] op = "recognize" -> "recognize"
    [] OTHER -> "none"

\* C7: once a step of page n has failed, the run is rejected with that error,
\* the failure is the last thing the run did (no later operation, no second
\* attempt of the failed step, nothing left in flight) and no text is returned
C7_FailureAborts ==
  \A h \in Handlers :
    \A i \in DOMAIN log[h] :
      log[h][i].ev = "fail" =>
        /\ pc[h] = "failed"
        /\ i = Len(log[h])
        /\ failure[h] \in {FailureOf(log[h][i].op), "context"}
        /\ failure[h] = "context" => log[h][i].op = "render_getPage"
        /\ result[h] = <<>>
        /\ OpsInFlight(h) = {}
        /\ \A j \in DOMAIN log[h] : log[h][j].page <= log[h][i].page
        /\ Cardinality(Starts(h, log[h][i].op, log[h][i].page)) = 1

\* the recognition of page 2 failed after page 1 had contributed its text
C7_Witness ==
  /\ pc[1] = "failed" /\ failure[1] = "recognize"
  /\ numPages[1] = 2 /\ pageNumber[1] = 2 /\ Len(pageTexts[1]) = 1

\* what a handled page contributes: its embedded text, else its OCR text
RECURSIVE Contributions(_)
Contributions(pages) ==
  IF pages = <<>> THEN <<>>
  ELSE LET pg == Head(pages) IN
       (IF \E i \in DOMAIN pg.text : ~IsWhitespace(pg.text[i]) THEN <<pg.text>>
        ELSE IF \E i \in DOMAIN pg.ocr : ~IsWhitespace(pg.ocr[i]) THEN <<pg.ocr>>
        ELSE <<>>)
       \o Contributions(Tail(pages))

\* the parts with sep between each two of them
RECURSIVE Separated(_, _)
Separated(parts, sep) ==
  IF parts = <<>> THEN <<>>
  ELSE IF Len(parts) = 1 THEN parts[1]
  ELSE Separated(SubSeq(parts, 1, Len(parts) - 1), sep) \o sep \o parts[Len(parts)]

\* t is s without its leading and trailing whitespace
IsTrimOf(t, s) ==
  /\ t # <<>> => ~IsWhitespace(t[1]) /\ ~IsWhitespace(t[Len(t)])
  /\ \E a \in 0..Len(s) : \E b \in a..Len(s) :
       /\ t = SubSeq(s, a + 1, b)
       /\ \A i \in 1..a : IsWhitespace(s[i])
       /\ \A i \in (b + 1)..Len(s) : IsWhitespace(s[i])

\* C8: the text a run returns is the contributions of its pages in page order
\* with "\n\n" between them, trimmed at both ends; with one contribution it is
\* that text trimmed
C8_ResultIsTrimmedJoin ==
  \A h \in Handlers :
    pc[h] = "done" =>
      LET parts == Contributions(seen[h]) IN
      /\ IsTrimOf(result[h], Separated(parts, <<NL, NL>>))
      /\ Len(parts) = 1 => IsTrimOf(result[h], parts[1])

\* two contributing pages, one from OCR, and a join the trim had to shorten
C8_Witness ==
  /\ pc[1] = "done" /\ Len(pageTexts[1]) = 2
  /\ seen[1][1].ocred /\ ~seen[1][2].ocred
  /\ Len(result[1]) < Len(pageTexts[1][1]) + 2 + Len(pageTexts[1][2])
  /\ result[1] # <<>>

Returns(h) == pc[h] \in {"done", "failed"} /\ pc'[h] = "idle"

\* the files of the batch found empty, the last extraction included
FinalEmpties(h) ==
  IF pc[h] = "done" /\ Trim(result[h]) = <<>>
  THEN Append(emptyFiles[h], CurrentFile(h).name)
  ELSE emptyFiles[h]

\* the files of the batch extracted with content, the last extraction included
FinalProcessed(h) ==
  IF pc[h] = "done" /\ Trim(result[h]) # <<>>
  THEN Append(processedFiles[h],
              [name |-> CurrentFile(h).name, content |-> result[h]])
  ELSE processedFiles[h]

\* every page was handled and gave whitespace only, from text layer and OCR
AllPagesBlank(h) ==
  /\ numPages[h] > 0 /\ Len(seen[h]) = numPages[h]
  /\ \A i \in DOMAIN seen[h] :
       /\ seen[h][i].ocred
       /\ \A k \in DOMAIN seen[h][i].text : IsWhitespace(seen[h][i].text[k])
       /\ \A k \in DOMAIN seen[h][i].ocr : IsWhitespace(seen[h][i].ocr[k])

\* C6: when handleFiles returns after an extraction of its batch failed, every
\* file of the batch has been extracted and the files extracted with content
\* are added to the uploaded files
C6_PartialSuccess ==
  [][\A h \in Handlers :
       (pc[h] = "failed" /\ pc'[h] = "idle") =>
         /\ fileIdx[h] = Len(pdfFiles[h])
         /\ uploadedFiles' = uploadedFiles \o processedFiles[h]]_vars

\* C9 as stated: a document of blank pages only extracts to the empty string
\* without failure, and when handleFiles returns the empty files of its batch
\* are named in the error message, are not added, and the files with content
\* are added
C9_EmptyFileNamed ==
  [][\A h \in Handlers :
       /\ (pc[h] \in {"done", "failed"} /\ AllPagesBlank(h)) =>
            pc[h] = "done" /\ result[h] = <<>>
       /\ (Returns(h) /\ FinalEmpties(h) # <<>>) =>
            /\ Range(FinalEmpties(h)) \subseteq Range(error'.names)
            /\ uploadedFiles' = uploadedFiles \o FinalProcessed(h)
            /\ \A i \in DOMAIN uploadedFiles' :
                 Trim(uploadedFiles'[i].content) # <<>>]_vars

\* C9 amended: a document of blank pages only extracts to the empty string
\* without failure and is never added; when the loop over the batch ends, the
\* files with content are added and the message names the empty files if some
\* file had content and is the generic no-text message if none had; when a
\* later extraction of the batch fails nothing is added and the message is the
\* extraction error
C9_EmptyFileHandled ==
  [][\A h \in Handlers :
       /\ (pc[h] \in {"done", "failed"} /\ AllPagesBlank(h)) =>
            pc[h] = "done" /\ result[h] = <<>>
       /\ (Returns(h) /\ FinalEmpties(h) # <<>>) =>
            /\ \A i \in DOMAIN uploadedFiles' :
                 Trim(uploadedFiles'[i].content) # <<>>
            /\ pc[h] = "done" =>
                 /\ uploadedFiles' = uploadedFiles \o FinalProcessed(h)
                 /\ error' = IF FinalProcessed(h) = <<>> THEN NoTextError
                             ELSE NoTextInError(FinalEmpties(h))
            /\ pc[h] = "failed" =>
                 /\ uploadedFiles' = uploadedFiles
                 /\ error' = ExtractError]_vars

\* a batch of an empty document a and a document b with text has been handled
C9_Witness ==
  /\ error = NoTextInError(<<"a">>)
  /\ uploadedFiles = <<[name |-> "b", content |-> <<X>>]>>
  /\ \A h \in Handlers : pc[h] = "idle"

\* ------------------------------------------------- claims about the merge
\* the call has returned
MergeDone == merged # <<>>

\* the numbers among the inputs' birads values
NumericBirads ==
  { extractions[i].birads.value[1] :
      i \in { j \in DOMAIN extractions : extractions[j].birads.value # <<>> } }

\* C11: the merged birads.value is the maximum of the numeric birads values
\* of the inputs and is null exactly when no input has a numeric value; the
\* values 2 and 4 merge to 4
C11_BiradsIsMaximum ==
  MergeDone =>
    LET v == merged[1].birads.value IN
    /\ (v = <<>>) <=> (NumericBirads = {})
    /\ v # <<>> => /\ v[1] \in NumericBirads
                   /\ \A n \in NumericBirads : n <= v[1]
    /\ NumericBirads = {2, 4} => v = <<4>>

\* an extraction with value 2 followed by one with value 4 has been merged
C11_Witness ==
  /\ MergeDone
  /\ Len(extractions) = 2
  /\ extractions[1].birads.value = <<2>>
  /\ extractions[2].birads.value = <<4>>
  /\ merged[1].birads.value = <<4>>

\* C12: merging two extractions in either order gives the same birads.value,
\* the same birads.confidence and the same breast_density.value
C12_OrdinalFieldsCommute ==
  (MergeDone /\ Len(extractions) = 2) =>
    LET swapped ==
          mergeRadiologyExtractions(<<extractions[2], extractions[1]>>)
    IN /\ merged[1].birads.value = swapped.birads.value
       /\ merged[1].birads.confidence = swapped.birads.confidence
       /\ merged[1].breast_density.value = swapped.breast_density.value

\* a density A followed by a density C has been merged
C12_Witness ==
  /\ MergeDone
  /\ Len(extractions) = 2
  /\ extractions[1].breast_density.value = "A"
  /\ extractions[2].breast_density.value = "C"
  /\ merged[1].breast_density.value = "C"

\* the positions of a list whose entry equals no earlier entry
FirstPositions(list) ==
  { i \in DOMAIN list : \A j \in 1..(i - 1) : list[j] # list[i] }

\* the list without the entries that repeat an earlier entry
WithoutRepeats(list) ==
  [k \in 1..Cardinality(FirstPositions(list)) |->
     list[CHOOSE i \in FirstPositions(list) :
            Cardinality({ j \in FirstPositions(list) : j <= i }) = k]]

\* C13 as stated: the findings of the merge of [A, A] are the findings of A
C13_DuplicationKeepsFindings ==
  (MergeDone /\ Len(extractions) = 2 /\ extractions[1] = extractions[2]) =>
    merged[1].findings = extractions[1].findings

\* C13 amended: the findings of the merge of [A, A] are the findings of A
\* without the entries that repeat an earlier entry of A, hence the findings
\* of A themselves when no two of them are identical
C13_DuplicationKeepsDistinctFindings ==
  (MergeDone /\ Len(extractions) = 2 /\ extractions[1] = extractions[2]) =>
    LET own == extractions[1].findings IN
    /\ merged[1].findings = WithoutRepeats(own)
    /\ FirstPositions(own) = DOMAIN own => merged[1].findings = own

\* an extraction with two different findings has been merged with itself
C13_Witness ==
  /\ MergeDone
  /\ Len(extractions) = 2
  /\ extractions[1] = extractions[2]
  /\ extractions[1].findings = <<Finding1, Finding2>>
  /\ merged[1].findings = <<Finding1, Finding2>>

\* the fields of an extraction that carry an evidence list
EvidenceFields == {"birads", "breast_density", "exam", "comparison"}

\* the string is empty or whitespace only
IsBlank(s) == \A i \in DOMAIN s : IsWhitespace(s[i])

\* C14 as stated: the merged evidence of a field contains every evidence
\* string of every input for that field
C14_EvidenceIsSuperset ==
  MergeDone =>
    \A f \in EvidenceFields : \A i \in DOMAIN extractions :
      Range(extractions[i][f].evidence) \subseteq Range(merged[1][f].evidence)

\* C14 amended: the merged evidence of a field contains, without its leading
\* and trailing whitespace, every evidence string of every input for that
\* field that is not empty or whitespace only
C14_EvidenceIsSupersetOfTrimmed ==
  MergeDone =>
    \A f \in EvidenceFields : \A i \in DOMAIN extractions :
      \A s \in Range(extractions[i][f].evidence) :
        ~IsBlank(s) =>
          \E t \in Range(merged[1][f].evidence) : IsTrimOf(t, s)

\* exam evidence "x " of one input and "y", "x" of the next has been merged
C14_Witness ==
  /\ MergeDone
  /\ Len(extractions) = 2
  /\ extractions[1].exam.evidence = <<<<X, SP>>>>
  /\ extractions[2].exam.evidence = <<<<Y>>, <<X>>>>
  /\ merged[1].exam.evidence = <<<<X>>, <<Y>>>>

\* the lateralities the inputs supply
SuppliedLateralities ==
  { extractions[i].exam.laterality : i \in DOMAIN extractions } \ {Null}

\* C15: the merged exam.laterality is bilateral if an input says bilateral or
\* if one says left and one says right; otherwise it is the first value in
\* input order that is not null, and null when there is none; left merged
\* with right is bilateral
C15_Laterality ==
  MergeDone =>
    LET l == merged[1].exam.laterality
        supplying == { i \in DOMAIN extractions :
                         extractions[i].exam.laterality # Null }
    IN /\ ("bilateral" \in SuppliedLateralities
             \/ {"left", "right"} \subseteq SuppliedLateralities)
            => l = "bilateral"
       /\ ("bilateral" \notin SuppliedLateralities
             /\ ~({"left", "right"} \subseteq SuppliedLateralities))
            => IF supplying = {} THEN l = Null
               ELSE \E i \in supplying :
                      /\ \A j \in supplying : i <= j
                      /\ l = extractions[i].exam.laterality
       /\ (Len(extractions) = 2 /\ extractions[1].exam.laterality = "left"
             /\ extractions[2].exam.laterality = "right") => l = "bilateral"

\* left followed by right has been merged
C15_Witness ==
  /\ MergeDone
  /\ Len(extractions) = 2
  /\ extractions[1].exam.laterality = "left"
  /\ extractions[2].exam.laterality = "right"
  /\ merged[1].exam.laterality = "bilateral"

\* s without its leading and trailing whitespace
TheTrimOf(s) ==
  CHOOSE t \in { SubSeq(s, a, b) : a \in 1..(Len(s) + 1), b \in 0..Len(s) } :
    IsTrimOf(t, s)

\* the strings of a list without leading and trailing whitespace, those that
\* stay non-empty, each once at its first occurrence
DistinctTrimmed(strings) ==
  WithoutRepeats(SelectSeq([i \in DOMAIN strings |-> TheTrimOf(strings[i])],
                           LAMBDA s : s # <<>>))

\* the summaries of the inputs, in input order
InputSummaries == [i \in DOMAIN extractions |-> extractions[i].summary]

\* the summary made of the distinct parts: nothing, the one part, or the lines
\* "- " + part with a newline between each two
SummaryOf(parts) ==
  IF Len(parts) = 0 THEN <<>>
  ELSE IF Len(parts) = 1 THEN parts[1]
  ELSE Separated([i \in DOMAIN parts |-> <<DASH, SP>> \o parts[i]], <<NL>>)

\* C16 as stated: the merged summary is made of the non-empty summaries as
\* the inputs gave them, exact duplicates removed: the single one verbatim, a
\* bulleted list of several, the empty string of none
C16_SummaryVerbatim ==
  MergeDone =>
    merged[1].summary =
      SummaryOf(WithoutRepeats(SelectSeq(InputSummaries, LAMBDA s : s # <<>>)))

\* C16 amended: the merged summary is made of the summaries without their
\* leading and trailing whitespace, those that are not empty then, duplicates
\* among the trimmed strings removed: the single one, a bulleted list of
\* several in first-occurrence order, the empty string of none
C16_SummaryOfTrimmed ==
  MergeDone => merged[1].summary = SummaryOf(DistinctTrimmed(InputSummaries))

\* the summaries " x" and "y" have been merged into two bulleted lines
C16_Witness ==
  /\ MergeDone
  /\ Len(extractions) = 2
  /\ extractions[1].summary = <<SP, X>>
  /\ extractions[2].summary = <<Y>>
  /\ merged[1].summary = <<DASH, SP, X, NL, DASH, SP, Y>>

\* the prior exam dates of the inputs, in input order
InputDates ==
  [i \in DOMAIN extractions |-> extractions[i].comparison.prior_exam_date]

\* the positions of a list of dates whose string parses as a date
Parsing(dates) == { i \in DOMAIN dates : DateParse(dates[i]) # <<>> }

\* the merged date for the inputs at the positions given: of those that
\* parse, one of the most recent; if none parses, the first one; null if none
IsMergedDate(date, dates, given) ==
  LET parsing == given \cap Parsing(dates) IN
  /\ parsing # {} =>
       \E i \in parsing :
         /\ date = dates[i]
         /\ \A j \in parsing : DateParse(dates[j])[1] <= DateParse(dates[i])[1]
  /\ (parsing = {} /\ given # {}) =>
       \E i \in given : date = dates[i] /\ \A j \in given : i <= j
  /\ (date = Null) <=> (given = {})

\* C17 as stated: the merged prior_exam_date is the input string that parses
\* to the most recent date if one parses, else the first string in input
\* order that is not null, and null exactly when every input has null
C17_MostRecentDate ==
  MergeDone =>
    IsMergedDate(merged[1].comparison.prior_exam_date, InputDates,
                 { i \in DOMAIN InputDates : InputDates[i] # Null })

\* C17 amended: as stated with the empty string counted as absent, and of
\* several strings that parse to the most recent date the first in input order
C17_MostRecentNonEmptyDate ==
  MergeDone =>
    LET given == { i \in DOMAIN InputDates :
                     InputDates[i] # Null /\ InputDates[i] # "" }
        latest == { i \in given \cap Parsing(InputDates) :
                      \A j \in given \cap Parsing(InputDates) :
                        DateParse(InputDates[j])[1] <= DateParse(InputDates[i])[1] }
    IN /\ IsMergedDate(merged[1].comparison.prior_exam_date, InputDates, given)
       /\ latest # {} =>
            \E i \in latest :
              /\ merged[1].comparison.prior_exam_date = InputDates[i]
              /\ \A j \in latest : i <= j

\* an earlier date followed by a later date has been merged
C17_Witness ==
  /\ MergeDone
  /\ Len(extractions) = 2
  /\ extractions[1].comparison.prior_exam_date = "2023-01-15"
  /\ extractions[2].comparison.prior_exam_date = "2024-06-30"
  /\ merged[1].comparison.prior_exam_date = "2024-06-30"

\* the lists one after the other
RECURSIVE Concatenation(_)
Concatenation(lists) ==
  IF lists = <<>> THEN <<>>
  ELSE Concatenation(SubSeq(lists, 1, Len(lists) - 1)) \o lists[Len(lists)]

\* C18: the merged findings, and the merged recommendations, are the inputs'
\* lists one after the other in input order without the entries that equal an
\* earlier entry in all fields: each distinct entry once, where it first occurs
C18_ListsConcatenatedWithoutRepeats ==
  MergeDone =>
    /\ merged[1].findings =
         WithoutRepeats(Concatenation(
           [i \in DOMAIN extractions |-> extractions[i].findings]))
    /\ merged[1].recommendations =
         WithoutRepeats(Concatenation(
           [i \in DOMAIN extractions |-> extractions[i].recommendations]))
    /\ \A i, j \in DOMAIN merged[1].findings :
         merged[1].findings[i] = merged[1].findings[j] => i = j
    /\ \A i, j \in DOMAIN merged[1].recommendations :
         merged[1].recommendations[i] = merged[1].recommendations[j] => i = j

\* two lists of the same two findings in opposite orders have been merged
C18_Witness ==
  /\ MergeDone
  /\ Len(extractions) = 2
  /\ extractions[1].findings = <<Finding1, Finding2>>
  /\ extractions[2].findings = <<Finding2, Finding1>>
  /\ merged[1].findings = <<Finding1, Finding2>>

\* the list holds no empty string, no string with leading or trailing
\* whitespace and no string twice
IsClean(list) ==
  /\ \A i \in DOMAIN list :
       /\ list[i] # <<>>
       /\ ~IsWhitespace(list[i][1])
       /\ ~IsWhitespace(list[i][Len(list[i])])
  /\ \A i, j \in DOMAIN list : list[i] = list[j] => i = j

\* C19: the merged red_flags and every merged evidence list hold exactly the
\* strings of all inputs for that field, trimmed, those that are not empty
\* then, each once in first-seen order; none of them is empty, starts or ends
\* with whitespace, or occurs twice
C19_StringListsAreClean ==
  MergeDone =>
    /\ merged[1].red_flags =
         DistinctTrimmed(Concatenation(
           [i \in DOMAIN extractions |-> extractions[i].red_flags]))
    /\ IsClean(merged[1].red_flags)
    /\ \A f \in EvidenceFields :
         /\ merged[1][f].evidence =
              DistinctTrimmed(Concatenation(
                [i \in DOMAIN extractions |-> extractions[i][f].evidence]))
         /\ IsClean(merged[1][f].evidence)

\* red flags " ", "y" of one input and "x", " x" of the next have been merged
C19_Witness ==
  /\ MergeDone
  /\ Len(extractions) = 2
  /\ extractions[1].red_flags = <<<<SP>>, <<Y>>>>
  /\ extractions[2].red_flags = <<<<X>>, <<SP, X>>>>
  /\ merged[1].red_flags = <<<<Y>>, <<X>>>>

\* C20 as stated: the merge of a single extraction has that extraction's
\* summary, birads value and confidence, breast density, exam type and
\* laterality and prior exam date
C20_SingleKeepsScalars ==
  (MergeDone /\ Len(extractions) = 1) =>
    LET A == extractions[1] IN
    /\ merged[1].summary = A.summary
    /\ merged[1].birads.value = A.birads.value
    /\ merged[1].birads.confidence = A.birads.confidence
    /\ merged[1].breast_density.value = A.breast_density.value
    /\ merged[1].exam.type = A.exam.type
    /\ merged[1].exam.laterality = A.exam.laterality
    /\ merged[1].comparison.prior_exam_date = A.comparison.prior_exam_date

\* C20 amended: the merge of a single extraction has that extraction's birads
\* value and confidence, breast density and laterality; its summary trimmed;
\* its exam type and prior exam date with null for the empty string; its
\* evidence lists and red flags trimmed, without empty strings and without
\* repeats; its findings and recommendations without repeats
C20_SingleKeepsNormalizedValues ==
  (MergeDone /\ Len(extractions) = 1) =>
    LET A == extractions[1] IN
    /\ IsTrimOf(merged[1].summary, A.summary)
    /\ merged[1].birads.value = A.birads.value
    /\ merged[1].birads.confidence = A.birads.confidence
    /\ merged[1].breast_density.value = A.breast_density.value
    /\ merged[1].exam.laterality = A.exam.laterality
    /\ merged[1].exam.type = IF A.exam.type = "" THEN Null ELSE A.exam.type
    /\ merged[1].comparison.prior_exam_date =
         IF A.comparison.prior_exam_date = "" THEN Null
         ELSE A.comparison.prior_exam_date
    /\ \A f \in EvidenceFields :
         merged[1][f].evidence = DistinctTrimmed(A[f].evidence)
    /\ merged[1].red_flags = DistinctTrimmed(A.red_flags)
    /\ merged[1].findings = WithoutRepeats(A.findings)
    /\ merged[1].recommendations = WithoutRepeats(A.recommendations)

\* a single extraction of confidence high has been merged
C20_Witness ==
  /\ MergeDone
  /\ Len(extractions) = 1
  /\ extractions[1].birads.confidence = "high"
  /\ merged[1].birads.confidence = "high"

ConfidenceRank == [low |-> 1, medium |-> 2, high |-> 3]
DensityRank == [A |-> 1, B |-> 2, C |-> 3, D |-> 4]

\* C22: the merged birads.confidence is the highest confidence of the inputs
\* under low < medium < high; the merged breast_density.value is the highest
\* density an input supplies under A < B < C < D, null exactly when none does
C22_HighestRankWins ==
  MergeDone =>
    LET confidences == { extractions[i].birads.confidence : i \in DOMAIN extractions }
        densities ==
          { extractions[i].breast_density.value : i \in DOMAIN extractions } \ {Null}
        c == merged[1].birads.confidence
        d == merged[1].breast_density.value
    IN /\ c \in confidences
       /\ \A x \in confidences : ConfidenceRank[x] <= ConfidenceRank[c]
       /\ (d = Null) <=> (densities = {})
       /\ d # Null => /\ d \in densities
                      /\ \A x \in densities : DensityRank[x] <= DensityRank[d]

\* confidence medium followed by confidence high has been merged
C22_Witness ==
  /\ MergeDone
  /\ Len(extractions) = 2
  /\ extractions[1].birads.confidence = "medium"
  /\ extractions[2].birads.confidence = "high"
  /\ merged[1].birads.confidence = "high"

\* the exam types of the inputs, in input order
InputExamTypes == [i \in DOMAIN extractions |-> extractions[i].exam.type]

\* the type is that of the first of the inputs at the positions given, and
\* null exactly when no position is given
IsFirstExamType(type, given) ==
  /\ given # {} =>
       \E i \in given : type = InputExamTypes[i] /\ \A j \in given : i <= j
  /\ (type = Null) <=> (given = {})

\* C23 as stated: the merged exam.type is that of the first input whose
\* exam.type is not null, and null exactly when every input's is null
C23_FirstExamType ==
  MergeDone =>
    IsFirstExamType(merged[1].exam.type,
                    { i \in DOMAIN InputExamTypes : InputExamTypes[i] # Null })

\* C23 amended: as stated with the empty string counted as absent
C23_FirstNonEmptyExamType ==
  MergeDone =>
    IsFirstExamType(merged[1].exam.type,
                    { i \in DOMAIN InputExamTypes :
                        InputExamTypes[i] # Null /\ InputExamTypes[i] # "" })

\* two different exam types have been merged
C23_Witness ==
  /\ MergeDone
  /\ Len(extractions) = 2
  /\ extractions[1].exam.type = "diagnostic ultrasound"
  /\ extractions[2].exam.type = "screening mammogram"
  /\ merged[1].exam.type = "diagnostic ultrasound"

\* C28: while an extraction started by handleFiles is in progress,
\* isExtracting is true
C28_ExtractingWhileRunning ==
  (\E h \in Handlers : RunInProgress(h)) => isExtracting

\* the first creation of the OCR worker has failed
FirstCreationFailed == workerPromises # <<>> /\ workerPromises[1] = "rejected"

\* C29: once the first creation of the OCR worker has failed, createWorker is
\* not invoked again and every OCR attempt that settles, in this or in a later
\* document, fails with the error of that creation without a recognition
C29_WorkerFailureIsKept ==
  [][FirstCreationFailed =>
       /\ workerPromises' = workerPromises
       /\ ocrWorkerPromise' = 1
       /\ \A h \in Handlers :
            /\ pc'[h] # "recognize"
            /\ (pc[h] = "getOcrWorker" /\ pc'[h] # "getOcrWorker") =>
                 /\ awaited[h] = 1
                 /\ pc'[h] = "failed"
                 /\ failure'[h] = "createWorker"]_vars

\* after the creation failed in the first upload, the OCR attempt of the
\* second upload has failed on the same promise without a new creation
C29_Witness ==
  /\ uploads = 2
  /\ workerPromises = <<"rejected">>
  /\ \E h \in Handlers :
       /\ pc[h] = "failed"
       /\ failure[h] = "createWorker"
       /\ \A i \in DOMAIN log[h] : log[h][i].op # "createWorker"

\* ---------------------------------------------- claims about openaiService
\* C24: a call of summarizeRadiologyReportJson whose report text has fewer
\* than 50 characters after trimming is rejected with an error, and no request
\* is ever sent for it
C24_ShortReportRejected ==
  (svcCall = "summarizeRadiologyReportJson"
     /\ Len(TheTrimOf(svcArg)) < MinReportLength) =>
    /\ settled.state = "rejected"
    /\ svcPc = "returned"
    /\ requests = 0

\* a text of 51 characters, 49 without the spaces around it, has been rejected
C24_Witness ==
  /\ svcCall = "summarizeRadiologyReportJson"
  /\ apiKey
  /\ svcArg = <<SP>> \o [i \in 1..49 |-> X] \o <<SP>>
  /\ settled = Rejected(<<"Failed to extract radiology report: ",
                          "Radiology report text is too short to summarize.">>)
  /\ requests = 0

\* C25: a call of batchSummarizeDocuments never rejects; when it returns,
\* summarizeDocument was called for every document and the result has one
\* entry per document, in order: the summary summarizeDocument returned for
\* it, or the fallback text when summarizeDocument threw
C25_BatchAlwaysReturnsAll ==
  svcCall = "batchSummarizeDocuments" =>
    /\ settled.state # "rejected"
    /\ svcPc = "returned" =>
         /\ settled.state = "resolved"
         /\ Len(docOutcomes) = Len(svcArg)
         /\ Len(settled.value) = Len(svcArg)
         /\ \A i \in DOMAIN svcArg :
              settled.value[i] =
                IF docOutcomes[i].ok THEN docOutcomes[i].value
                ELSE <<"Failed to generate summary for this document.">>

\* of two documents the first has failed and the second has been summarized
C25_Witness ==
  /\ svcCall = "batchSummarizeDocuments"
  /\ svcPc = "returned"
  /\ Len(svcArg) = 2
  /\ requests = 2
  /\ settled.state = "resolved"
  /\ settled.value =
       <<<<"Failed to generate summary for this document.">>, <<X>>>>

\* ------------------------------------------ claims about the generate handlers
\* the values the successful calls of a run resolved with, in call order
RECURSIVE Successes(_)
Successes(lg) ==
  IF lg = <<>> THEN <<>>
  ELSE IF lg[1].ok THEN <<lg[1].value>> \o Successes(Tail(lg))
       ELSE Successes(Tail(lg))

\* every file of the run has been called, in upload order
CalledEveryFile(lg, files) ==
  /\ Len(lg) = Len(files)
  /\ \A i \in DOMAIN files : lg[i].name = files[i].name

MultiReturns == genPc = "extractMulti" /\ genPc' = "idle"

\* C26: on the multi-document structured path a failed extraction call does
\* not stop the calls for the files after it: when the run returns, every file
\* has been called. mergeRadiologyExtractions is called only with a non-empty
\* sequence, which holds exactly the successful extractions in upload order;
\* the count shown in the report is the length of that sequence; and when
\* every extraction failed, no report is emitted, the merge is not called and
\* an error is set.
C26_MultiDocumentPath ==
  [][/\ MultiReturns =>
          /\ Len(genFiles) >= 2
          /\ CalledEveryFile(genLog', genFiles)
          /\ IF Successes(genLog') # <<>>
             THEN /\ extractions' = Successes(genLog')
                  /\ merged' =
                       Append(merged,
                              mergeRadiologyExtractions(Successes(genLog')))
                  /\ Len(emitted') = Len(emitted) + 1
                  /\ Len(emitted'[Len(emitted')]) = 1
                  /\ LET report == emitted'[Len(emitted')][1] IN
                     /\ report.summary.header[2] = Len(Successes(genLog'))
                     /\ report.filename[2] = Len(Successes(genLog'))
                     /\ report.summary.fields = merged'[Len(merged')]
                     /\ report.radiologyJson = merged'[Len(merged')]
             ELSE /\ emitted' = emitted
                  /\ merged' = merged
                  /\ extractions' = extractions
                  /\ error' = RadiologyFailedError
     /\ merged' # merged => MultiReturns /\ extractions' # <<>>
    ]_vars

\* a run over two or more files has returned in which a call failed and a
\* later call succeeded, and the report of the run counts the successes
C26_Witness ==
  /\ genPc = "idle"
  /\ Len(genLog) >= 2
  /\ \E i, j \in DOMAIN genLog : i < j /\ ~genLog[i].ok /\ genLog[j].ok
  /\ merged # <<>>
  /\ extractions = Successes(genLog)
  /\ emitted # <<>>
  /\ emitted[Len(emitted)][1].filename =
       <<"Radiology batch (", Len(extractions), " PDFs)">>
  /\ Len(extractions) < Len(genLog)

\* the summaries of the successful calls of a run, in call order
RECURSIVE SuccessfulSummaries(_, _)
SuccessfulSummaries(lg, files) ==
  IF lg = <<>> \/ files = <<>> THEN <<>>
  ELSE IF lg[1].ok
       THEN <<[filename |-> files[1].name, content |-> files[1].content,
               summary |-> lg[1].value]>>
            \o SuccessfulSummaries(Tail(lg), Tail(files))
       ELSE SuccessfulSummaries(Tail(lg), Tail(files))

SummariesReturns == genPc = "summarizeDocument" /\ genPc' = "idle"

\* C27: in generateSummaries a failed summarizeDocument call does not stop the
\* calls for the files after it: when the run returns, every file has been
\* called. If at least one call succeeded, the successful summaries are handed
\* to onSummariesGenerated in one call, in upload order, and the uploaded-files
\* list is emptied; if no call succeeded, onSummariesGenerated is not called,
\* an error is set and the uploaded-files list is left unchanged.
C27_GenerateSummaries ==
  [][/\ SummariesReturns =>
          /\ CalledEveryFile(genLog', genFiles)
          /\ IF \E i \in DOMAIN genLog' : genLog'[i].ok
             THEN /\ emitted' =
                       Append(emitted, SuccessfulSummaries(genLog', genFiles))
                  /\ uploadedFiles' = <<>>
             ELSE /\ emitted' = emitted
                  /\ error' = SummariesFailedError
                  /\ error' # NoError
                  /\ uploadedFiles' = uploadedFiles
                  /\ uploadedFiles' # <<>>
     /\ (genPc = "summarizeDocument" /\ ~SummariesReturns) => emitted' = emitted
    ]_vars

\* a run of generateSummaries over two files has returned in which the first
\* call failed and the second succeeded: one summary was handed over and the
\* list is empty
C27_Witness ==
  /\ genPc = "idle"
  /\ Len(genLog) = 2
  /\ ~genLog[1].ok
  /\ genLog[2].ok
  /\ uploadedFiles = <<>>
  /\ emitted # <<>>
  /\ Len(emitted[Len(emitted)]) = 1
  /\ emitted[Len(emitted)][1].summary = genLog[2].value
  /\ emitted[Len(emitted)][1].filename = genLog[2].name

\* C30: every run of generateSummaries or generateRadiologyBatchSummary that
\* sets isProcessing to true eventually sets it back to false, and every run
\* of handleFiles that sets isExtracting to true eventually sets it back to
\* false and clears the extraction status, on success and on failure alike,
\* provided each external call eventually settles.
C30_FlagsComeBack ==
  /\ (genPc # "idle") ~> (genPc = "idle" /\ ~isProcessing)
  /\ isProcessing ~> ~isProcessing
  /\ (pc[1] # "idle") ~>
       (pc[1] = "idle" /\ ~isExtracting /\ extractionStatus = NoStatus)
  /\ isExtracting ~> (~isExtracting /\ extractionStatus = NoStatus)

\* a run of generateRadiologyBatchSummary in which every call failed and an
\* upload whose extraction failed have both returned, and the flags are back
C30_Witness ==
  /\ genRuns > 0
  /\ genPc = "idle"
  /\ Len(genLog) >= 2
  /\ \A i \in DOMAIN genLog : ~genLog[i].ok
  /\ emitted = <<>>
  /\ ~isProcessing
  /\ ~isRadiologyProcessing
  /\ uploads > 0
  /\ pc[1] = "idle"
  /\ error = ExtractError
  /\ ~isExtracting
  /\ extractionStatus = NoStatus

====
